---- MODULE Spec2Model ----
(***************************************************************************)
(* Activation core of the MarbleRun coordinator: Core.Activate and         *)
(* Core.verifyManifestRequirement (coordinator/core/marbleapi.go) over the *)
(* manifest model (Manifest, Marble, Manifest.Check).                      *)
(***************************************************************************)
EXTENDS Integers, Sequences, FiniteSets, TLC

\* ------------------------------------------------------------------ bounds
\* largest MaxActivations a committed manifest gives the limited marble
MaxK == 1
\* number of Activate calls issued in one behaviour
MaxCalls == 3
\* number of Activate calls made one after the other in one behaviour
MaxRepeat == 3

\* concurrent RPC handler goroutines
Procs == {1, 2}

\* ------------------------------------------------------------ result codes
OK == "OK"
NoErr == "nil"
FailedPrecondition == "FailedPrecondition"
Unauthenticated == "Unauthenticated"
InvalidArgument == "InvalidArgument"
ResourceExhausted == "ResourceExhausted"
Internal == "Internal"
\* an error returned without a status code (plain `return err`)
Unwrapped == "Unwrapped"

\* ------------------------------------------------------- coordinator state
stateUninitialized == "uninitialised"
stateAcceptingMarbles == "acceptingMarbles"

\* ---------------------------------------------------------------- manifest
ZeroInfra == "zero"
NoInfrastructures == [i \in {} |-> ZeroInfra]
TwoInfrastructures == [i \in {"azure", "onprem"} |-> i]
InfraChoices == {NoInfrastructures, TwoInfrastructures}

Packages0 ==
    [p \in {"pkgA", "pkgB"} |->
        [SignerID |-> IF p = "pkgA" THEN "sA" ELSE "sB", SecurityVersion |-> 1]]

Marbles0(k) ==
    [m \in {"frontend", "backend"} |->
        IF m = "frontend"
        THEN [Package |-> "pkgA", MaxActivations |-> k]
        ELSE [Package |-> "pkgB", MaxActivations |-> 0]]

Manifest(pkgs, infras, marbles) ==
    [Packages |-> pkgs, Infrastructures |-> infras, Marbles |-> marbles]

\* variant: the marbles' package references are not looked up
Check_norefs(m) ==
    IF Cardinality(DOMAIN m.Packages) <= 0 THEN FALSE
    ELSE IF Cardinality(DOMAIN m.Marbles) <= 0 THEN FALSE
    ELSE TRUE

\* Manifest.Check: nil iff packages and marbles are non-empty and every
\* marble references a defined package
Check(m) ==
    IF Cardinality(DOMAIN m.Packages) <= 0 THEN FALSE
    ELSE IF Cardinality(DOMAIN m.Marbles) <= 0 THEN FALSE
    ELSE \A mt \in DOMAIN m.Marbles : m.Marbles[mt].Package \in DOMAIN m.Packages

\* the manifests an administrator commits
ManifestChoices ==
    {mf \in {Manifest(Packages0, inf, Marbles0(k)) : inf \in InfraChoices, k \in 1..MaxK} :
        Check(mf)}

\* the update manifest raises the security version of pkgA and names
\* nothing else of the package
UpdateChoice ==
    Manifest([p \in {"pkgA"} |-> [SignerID |-> "", SecurityVersion |-> 2]],
             NoInfrastructures, [m \in {} |-> 0])

EmptyManifest == Manifest([p \in {} |-> 0], NoInfrastructures, [m \in {} |-> 0])

\* ----------------------------------------------------------------- requests
MarbleTypes == {"frontend", "backend"}
ReqTypes == MarbleTypes \cup {"nope"}

Quote(s, v, i) == [SignerID |-> s, SecurityVersion |-> v, Infra |-> i]
Quotes == {Quote("sA", 2, "azure"), Quote("sA", 1, "onprem"), Quote("sB", 1, "rogue")}

\* QuoteVerifier.Validate(quote, cert, pkg, infra) == nil
Validate(certQuote, pkg, infra) ==
    /\ certQuote.SignerID = pkg.SignerID
    /\ certQuote.SecurityVersion >= pkg.SecurityVersion
    /\ (infra = ZeroInfra \/ certQuote.Infra = infra)

\* ------------------------------------------------------------------- store
EmptyStore ==
    [manifests |-> [n \in {} |-> EmptyManifest],
     activations |-> [t \in {} |-> 0],
     secrets |-> "sharedSecrets",
     certificates |-> {"root", "intermediate"},
     privk |-> {"root", "intermediate"}]

\* getManifest: "update" reads as an empty manifest while unset
getManifest(st, name) ==
    IF name \in DOMAIN st.manifests THEN st.manifests[name] ELSE EmptyManifest

IsSet(st, marbleType) == marbleType \in DOMAIN st.activations

\* the counter as a number, an absent counter counting as 0
Count(st, marbleType) ==
    IF IsSet(st, marbleType) THEN st.activations[marbleType] ELSE 0

putActivations(st, marbleType, n) ==
    [st EXCEPT !.activations =
        [t \in DOMAIN st.activations \cup {marbleType} |->
            IF t = marbleType THEN n ELSE st.activations[t]]]

incrementActivations(st, marbleType) ==
    putActivations(st, marbleType, Count(st, marbleType) + 1)

putManifest(st, name, mf) ==
    [st EXCEPT !.manifests =
        [n \in DOMAIN st.manifests \cup {name} |->
            IF n = name THEN mf ELSE st.manifests[n]]]

\* ------------------------------------------- verifyManifestRequirement
\* the package the quote is validated against: main's package with the
\* security version of the update manifest when the update defines it
\* variant: the update's package replaces main's package as a whole
PackageOverlay_whole(mainManifest, updateManifest, name) ==
    IF name \in DOMAIN updateManifest.Packages
    THEN updateManifest.Packages[name]
    ELSE mainManifest.Packages[name]

PackageOverlay(mainManifest, updateManifest, name) ==
    IF name \in DOMAIN updateManifest.Packages
    THEN [mainManifest.Packages[name] EXCEPT
            !.SecurityVersion = updateManifest.Packages[name].SecurityVersion]
    ELSE mainManifest.Packages[name]

\* the orders in which `range` may walk the Infrastructures map
Orders(infras) ==
    {o \in [1..Cardinality(DOMAIN infras) -> DOMAIN infras] :
        \A i, j \in DOMAIN o : i # j => o[i] # o[j]}

\* variant: the loop has no break
InfraLoop_nobreak(mainManifest, certQuote, pkg, order) ==
    LET hits == {i \in DOMAIN order :
                    Validate(certQuote, pkg, mainManifest.Infrastructures[order[i]])}
    IN [infraMatch |-> hits # {},
        validated |-> [i \in DOMAIN order |-> mainManifest.Infrastructures[order[i]]]]

\* the quote check with infrastructures defined: Validate is called on the
\* entries in the order of the walk, up to and including the first success
InfraLoop(mainManifest, certQuote, pkg, order) ==
    LET hits == {i \in DOMAIN order :
                    Validate(certQuote, pkg, mainManifest.Infrastructures[order[i]])}
        stop == IF hits = {} THEN Len(order)
                ELSE CHOOSE i \in hits : \A j \in hits : i <= j
    IN [infraMatch |-> hits # {},
        validated |-> [i \in 1..stop |-> mainManifest.Infrastructures[order[i]]]]

\* variant: the comparison is strict
BudgetExhausted_strict(marble, activations) ==
    marble.MaxActivations > 0 /\ activations > marble.MaxActivations

\* marble.MaxActivations > 0 && activations >= marble.MaxActivations
BudgetExhausted(marble, activations) ==
    marble.MaxActivations > 0 /\ activations >= marble.MaxActivations

Out(err, st, steps, validated) ==
    [err |-> err, store |-> st, steps |-> steps, validated |-> validated]

ValidateSteps(validated) == [i \in DOMAIN validated |-> "Validate"]

\* variant: the seed writes 0 whatever was read
CheckBudget_reset(st, marble, marbleType, steps, validated, fault) ==
    LET activations == Count(st, marbleType)
        s1 == steps \o <<"getActivations">>
        s2 == s1 \o <<"putActivations">>
        seeded == putActivations(st, marbleType, 0)
    IN IF fault = "getActivations" THEN Out(Internal, st, s1, validated)
       ELSE IF fault = "putActivations" THEN Out(Internal, st, s2, validated)
       ELSE IF BudgetExhausted(marble, activations)
            THEN Out(ResourceExhausted, seeded, s2, validated)
       ELSE Out(NoErr, seeded, s2, validated)

\* the budget part of verifyManifestRequirement: read, seed, compare
CheckBudget(st, marble, marbleType, steps, validated, fault) ==
    LET activations == Count(st, marbleType)
        s1 == steps \o <<"getActivations">>
        s2 == s1 \o <<"putActivations">>
        seeded == putActivations(st, marbleType, activations)
    IN IF fault = "getActivations" THEN Out(Internal, st, s1, validated)
       ELSE IF fault = "putActivations" THEN Out(Internal, st, s2, validated)
       ELSE IF BudgetExhausted(marble, activations)
            THEN Out(ResourceExhausted, seeded, s2, validated)
       ELSE Out(NoErr, seeded, s2, validated)

\* variant: the simulation flag is not consulted
CheckQuote_nosim(mainManifest, simMode, certQuote, pkg, order) ==
    IF Cardinality(DOMAIN mainManifest.Infrastructures) = 0
    THEN [ok |-> Validate(certQuote, pkg, ZeroInfra), validated |-> <<ZeroInfra>>]
    ELSE LET l == InfraLoop(mainManifest, certQuote, pkg, order)
         IN [ok |-> l.infraMatch, validated |-> l.validated]

\* the quote part of verifyManifestRequirement
CheckQuote(mainManifest, simMode, certQuote, pkg, order) ==
    IF simMode THEN [ok |-> TRUE, validated |-> <<>>]
    ELSE IF Cardinality(DOMAIN mainManifest.Infrastructures) = 0
         THEN [ok |-> Validate(certQuote, pkg, ZeroInfra), validated |-> <<ZeroInfra>>]
    ELSE LET l == InfraLoop(mainManifest, certQuote, pkg, order)
         IN [ok |-> l.infraMatch, validated |-> l.validated]

\* variant: the counter is seeded before the marble is looked up
UnknownMarble_seeded(st, marbleType, steps) ==
    Out(InvalidArgument, putActivations(st, marbleType, Count(st, marbleType)),
        steps, <<>>)

\* the outcome for a marble type the main manifest does not define
UnknownMarble(st, marbleType, steps) == Out(InvalidArgument, st, steps, <<>>)

verifyManifestRequirement(st, simMode, certQuote, marbleType, order, fault) ==
    LET mainManifest == getManifest(st, "main")
        updateManifest == getManifest(st, "update")
        s1 == <<"getManifest(main)">>
        s2 == s1 \o <<"getManifest(update)">>
    IN IF fault = "getManifest(main)" \/ "main" \notin DOMAIN st.manifests
       THEN Out(Unwrapped, st, s1, <<>>)
       ELSE IF fault = "getManifest(update)" THEN Out(Unwrapped, st, s2, <<>>)
       ELSE IF marbleType \notin DOMAIN mainManifest.Marbles
            THEN UnknownMarble(st, marbleType, s2)
       ELSE LET marble == mainManifest.Marbles[marbleType]
            IN IF marble.Package \notin DOMAIN mainManifest.Packages
               THEN Out(Internal, st, s2, <<>>)
               ELSE LET pkg == PackageOverlay(mainManifest, updateManifest, marble.Package)
                        q == CheckQuote(mainManifest, simMode, certQuote, pkg, order)
                        s3 == s2 \o ValidateSteps(q.validated)
                    IN IF ~q.ok THEN Out(Unauthenticated, st, s3, q.validated)
                       ELSE CheckBudget(st, marble, marbleType, s3, q.validated, fault)

\* variant: the gate names another state
RequiredState_other == stateUninitialized

\* the state Activate requires
RequiredState == stateAcceptingMarbles

\* variant: the peer certificate is asked for after verifyManifestRequirement
ActivateHead_certlate(coordState, st, simMode, certQuote, marbleType, order, fault) ==
    IF coordState # RequiredState
    THEN Out(FailedPrecondition, st, <<"requireState">>, <<>>)
    ELSE LET v == verifyManifestRequirement(st, simMode, certQuote, marbleType, order, fault)
         IN IF v.err = NoErr /\ fault = "getClientTLSCert"
            THEN Out(Unauthenticated, v.store,
                     <<"requireState">> \o v.steps \o <<"getClientTLSCert">>,
                     v.validated)
            ELSE Out(v.err, v.store, <<"requireState", "getClientTLSCert">> \o v.steps,
                     v.validated)

\* Activate from the state gate to the return of verifyManifestRequirement
ActivateHead(coordState, st, simMode, certQuote, marbleType, order, fault) ==
    IF coordState # RequiredState
    THEN Out(FailedPrecondition, st, <<"requireState">>, <<>>)
    ELSE IF fault = "getClientTLSCert"
         THEN Out(Unauthenticated, st, <<"requireState", "getClientTLSCert">>, <<>>)
    ELSE LET v == verifyManifestRequirement(st, simMode, certQuote, marbleType, order, fault)
         IN Out(v.err, v.store, <<"requireState", "getClientTLSCert">> \o v.steps, v.validated)

HeadFaults ==
    {"getClientTLSCert", "getManifest(main)", "getManifest(update)",
     "getActivations", "putActivations"}

\* ------------------------------------- Activate after the budget check
\* variant: no error branch returns
Step_unchecked(name, err, returns, poisons) ==
    [name |-> name, err |-> err, returns |-> FALSE, poisons |-> poisons]

Step(name, err, returns, poisons) ==
    [name |-> name, err |-> err, returns |-> returns, poisons |-> poisons]

\* variant: the counter is incremented before the parameters are customised
IssueSteps_early ==
    << Step("uuid.Parse", Unwrapped, TRUE, ""),
       Step("getPrivK(root)", Unwrapped, TRUE, ""),
       Step("ParseCertificateRequest", InvalidArgument, TRUE, ""),
       Step("CheckSignature", InvalidArgument, TRUE, ""),
       Step("csr:getCertificate(intermediate)", Unwrapped, TRUE, ""),
       Step("csr:getPrivK(intermediate)", Unwrapped, TRUE, ""),
       Step("CreateCertificate", Internal, TRUE, ""),
       Step("auth:getCertificate(intermediate)", Unwrapped, TRUE, ""),
       Step("getCertificate(intermediate)", Unwrapped, TRUE, ""),
       Step("getPrivK(intermediate)", Unwrapped, FALSE, "generateSecrets"),
       Step("getManifest(main)", Unwrapped, TRUE, ""),
       Step("generateSecrets", Unwrapped, TRUE, ""),
       Step("getSecretMap", Unwrapped, TRUE, ""),
       Step("setTTLSConfig", Unwrapped, TRUE, ""),
       Step("incrementActivations", Unwrapped, TRUE, ""),
       Step("customizeParameters", Unwrapped, TRUE, "") >>

\* the fallible steps of Activate after verifyManifestRequirement, in
\* program order: the error each returns, whether its error branch returns
\* at all, and the later step that consumes its unchecked result
IssueSteps ==
    << Step("uuid.Parse", Unwrapped, TRUE, ""),
       Step("getPrivK(root)", Unwrapped, TRUE, ""),
       Step("ParseCertificateRequest", InvalidArgument, TRUE, ""),
       Step("CheckSignature", InvalidArgument, TRUE, ""),
       Step("csr:getCertificate(intermediate)", Unwrapped, TRUE, ""),
       Step("csr:getPrivK(intermediate)", Unwrapped, TRUE, ""),
       Step("CreateCertificate", Internal, TRUE, ""),
       Step("auth:getCertificate(intermediate)", Unwrapped, TRUE, ""),
       Step("getCertificate(intermediate)", Unwrapped, TRUE, ""),
       Step("getPrivK(intermediate)", Unwrapped, FALSE, "generateSecrets"),
       Step("getManifest(main)", Unwrapped, TRUE, ""),
       Step("generateSecrets", Unwrapped, TRUE, ""),
       Step("getSecretMap", Unwrapped, TRUE, ""),
       Step("setTTLSConfig", Unwrapped, TRUE, ""),
       Step("customizeParameters", Unwrapped, TRUE, ""),
       Step("incrementActivations", Unwrapped, TRUE, "") >>

StepNames(steps) == {steps[i].name : i \in DOMAIN steps}
IssueFaults == StepNames(IssueSteps)

StepIndex(steps, name) == CHOOSE i \in DOMAIN steps : steps[i].name = name

\* Runs the steps in order. `fault` names the step whose call fails (or
\* "none"); `nilKey` tells whether the step that consumes an unchecked
\* failed result fails in its turn.
RunSteps(steps, st, marbleType, fault, nilKey) ==
    LET fi == IF fault \in StepNames(steps) THEN StepIndex(steps, fault) ELSE 0
        stop == IF fi = 0 THEN 0
                ELSE IF steps[fi].returns THEN fi
                ELSE IF nilKey /\ steps[fi].poisons \in StepNames(steps)
                        /\ StepIndex(steps, steps[fi].poisons) > fi
                     THEN StepIndex(steps, steps[fi].poisons)
                ELSE 0
        ran == IF stop = 0 THEN Len(steps) ELSE stop
        inc == StepIndex(steps, "incrementActivations")
        incremented == inc <= ran /\ inc # stop
    IN [err |-> IF stop = 0 THEN NoErr ELSE steps[stop].err,
        store |-> IF incremented THEN incrementActivations(st, marbleType) ELSE st,
        steps |-> [i \in 1..ran |-> steps[i].name],
        resp |-> stop = 0]

\* variant: the counter is not incremented
ActivateTail_noinc(st, marbleType, fault, nilKey) ==
    [RunSteps(IssueSteps, st, marbleType, fault, nilKey) EXCEPT !.store = st]

ActivateTail(st, marbleType, fault, nilKey) ==
    RunSteps(IssueSteps, st, marbleType, fault, nilKey)

\* variant: the mutex is released on the success path only
MuxAfterReturn_leak(p, err) == IF err = NoErr THEN 0 ELSE p

\* defer c.mux.Unlock(): the holder of the mutex after Activate returned
MuxAfterReturn(p, err) == 0

\* variant: the mutex covers verifyManifestRequirement only
MuxAfterVerify_release(p) == 0

\* the mutex is not released between verifyManifestRequirement and the
\* rest of Activate
MuxAfterVerify(p) == p

\* ------------------------------------------------- secrets and strings
\* Byte strings are named by what they hold.  A string is a sequence of
\* chunks: literal text, a template action "{{ func path }}", an unterminated
\* action, the output of an encoder, or a JSON document; + is \o.
Secret(cert, private, public) ==
    [Type |-> "", Cert |-> [Raw |-> cert], Private |-> private, Public |-> public]

ZeroSecret == Secret("", "", "")

Chunk(enc, type, bytes) == [enc |-> enc, type |-> type, bytes |-> bytes]
Lit(text) == <<Chunk("lit", "", text)>>
Action(func, path) == <<[enc |-> "act", func |-> func, path |-> path]>>
Unterminated == <<[enc |-> "bad"]>>

\* pem.EncodeToMemory(&pem.Block{Type, Bytes})
PemEncode(type, bytes) == <<Chunk("pem", type, bytes)>>

\* reservedSecrets as generateMarbleAuthSecrets builds them
AuthSecrets ==
    [RootCA |-> Secret("intermediateDER", "", ""),
     MarbleCert |-> Secret("leafDER", "leafPKCS8", "leafPKIX"),
     SealKey |-> Secret("", "sealKey", "sealKey")]

\* variant: a missing name falls back to the marble's leaf credentials
LookupSecret_leaf(userSecrets, name) ==
    IF name \in DOMAIN userSecrets THEN userSecrets[name] ELSE AuthSecrets.MarbleCert

\* a Go map read: the zero value when the key is missing
LookupSecret(userSecrets, name) ==
    IF name \in DOMAIN userSecrets THEN userSecrets[name] ELSE ZeroSecret

secretsWrapper(specialSecrets, userSecrets) ==
    [Marblerun |-> specialSecrets, Secrets |-> userSecrets]

\* the typed value a template path evaluates to
Resolve(path, secretsWrapped) ==
    LET sec == IF path[1] = "Marblerun"
               THEN secretsWrapped.Marblerun[path[2]]
               ELSE LookupSecret(secretsWrapped.Secrets, path[2])
    IN IF Len(path) = 2 THEN [kind |-> "Secret", secret |-> sec]
       ELSE IF path[3] = "Cert" THEN [kind |-> "Certificate", bytes |-> sec.Cert.Raw]
       ELSE IF path[3] = "Private" THEN [kind |-> "PrivateKey", bytes |-> sec.Private]
       ELSE IF path[3] = "Public" THEN [kind |-> "PublicKey", bytes |-> sec.Public]
       ELSE [kind |-> "string", bytes |-> sec.Type]

Encoded(s) == [ok |-> TRUE, s |-> s]
EncodeError == [ok |-> FALSE, s |-> <<>>]

encodeSecretDataToPem(data) ==
    IF data.kind = "Certificate" THEN Encoded(PemEncode("CERTIFICATE", data.bytes))
    ELSE IF data.kind = "PublicKey" THEN Encoded(PemEncode("PUBLIC KEY", data.bytes))
    ELSE IF data.kind = "PrivateKey" THEN Encoded(PemEncode("PRIVATE KEY", data.bytes))
    ELSE EncodeError

\* variant: a Secret is not an accepted input
encodeSecretDataToRaw_nosecret(data) ==
    IF data.kind \in {"bytes", "PrivateKey", "PublicKey", "Certificate"}
    THEN Encoded(<<Chunk("raw", "", data.bytes)>>)
    ELSE EncodeError

\* the type switch of encodeSecretDataToRaw: a Secret gives its Public part
encodeSecretDataToRaw(data) ==
    IF data.kind \in {"bytes", "PrivateKey", "PublicKey", "Certificate"}
    THEN Encoded(<<Chunk("raw", "", data.bytes)>>)
    ELSE IF data.kind = "Secret"
    THEN Encoded(<<Chunk("raw", "", data.secret.Public)>>)
    ELSE EncodeError

\* hex.EncodeToString([]byte(raw))
encodeSecretDataToHex(data) ==
    LET raw == encodeSecretDataToRaw(data)
    IN IF ~raw.ok THEN EncodeError ELSE Encoded(<<Chunk("hex", "", raw.s[1].bytes)>>)

\* base64.StdEncoding.EncodeToString([]byte(raw))
encodeSecretDataToBase64(data) ==
    LET raw == encodeSecretDataToRaw(data)
    IN IF ~raw.ok THEN EncodeError ELSE Encoded(<<Chunk("base64", "", raw.s[1].bytes)>>)

manifestTemplateFuncMap(func, data) ==
    IF func = "pem" THEN encodeSecretDataToPem(data)
    ELSE IF func = "hex" THEN encodeSecretDataToHex(data)
    ELSE IF func = "raw" THEN encodeSecretDataToRaw(data)
    ELSE IF func = "base64" THEN encodeSecretDataToBase64(data)
    ELSE EncodeError

\* ----------------------------------------------------------- parseSecrets
\* the error of template.Parse / Template.Execute: no status code, and the
\* only name it carries is the template's own, "data"
TemplateError == [code |-> Unwrapped, about |-> "data"]
NoError == [code |-> NoErr, about |-> ""]

\* the texts of a chunk the template parser scans for actions
Texts(chunk) ==
    IF chunk.enc = "json"
    THEN {e.key : e \in chunk.entries}
    ELSE {<<chunk>>}

ParseFails(data) ==
    \E i \in DOMAIN data : \E t \in Texts(data[i]) :
        \E j \in DOMAIN t : t[j].enc = "bad"

Evaluate(chunk, secretsWrapped) ==
    manifestTemplateFuncMap(chunk.func, Resolve(chunk.path, secretsWrapped))

ExecuteFails(data, secretsWrapped) ==
    \E i \in DOMAIN data : \E t \in Texts(data[i]) :
        \E j \in DOMAIN t : t[j].enc = "act" /\ ~Evaluate(t[j], secretsWrapped).ok

RECURSIVE ExecuteText(_, _)
ExecuteText(t, secretsWrapped) ==
    IF t = <<>> THEN <<>>
    ELSE (IF Head(t).enc = "act" THEN Evaluate(Head(t), secretsWrapped).s
          ELSE <<Head(t)>>)
         \o ExecuteText(Tail(t), secretsWrapped)

RECURSIVE Execute(_, _)
Execute(data, secretsWrapped) ==
    IF data = <<>> THEN <<>>
    ELSE (IF Head(data).enc = "json"
          THEN <<[enc |-> "json",
                  entries |-> {[e EXCEPT !.key = ExecuteText(@, secretsWrapped)] :
                                  e \in Head(data).entries}]>>
          ELSE ExecuteText(<<Head(data)>>, secretsWrapped))
         \o Execute(Tail(data), secretsWrapped)

parseSecrets(data, secretsWrapped) ==
    IF ParseFails(data) THEN [err |-> TemplateError, s |-> <<>>]
    ELSE IF ExecuteFails(data, secretsWrapped) THEN [err |-> TemplateError, s |-> <<>>]
    ELSE [err |-> NoError, s |-> Execute(data, secretsWrapped)]

\* ---------------------------------------------------- customizeParameters
\* the reserved environment variables (constants of the marble package)
MarbleEnvironmentIntermediateCA == "EDG_CA"
MarbleEnvironmentCertificateChain == "EDG_CERT_CHAIN"
MarbleEnvironmentPrivateKey == "EDG_PRIVATE_KEY"
ReservedEnv ==
    {MarbleEnvironmentIntermediateCA, MarbleEnvironmentCertificateChain,
     MarbleEnvironmentPrivateKey}

Parameters(argv, files, env) == [Argv |-> argv, Files |-> files, Env |-> env]
NoStrings == [n \in {} |-> <<>>]
NoParameters == Parameters(<<>>, NoStrings, NoStrings)

\* variant: a manifest value for a reserved variable is kept
ReservedValue_keep(env, name, value) ==
    IF name \in DOMAIN env THEN env[name] ELSE value

\* the value of a reserved variable in the customised Env
ReservedValue(env, name, value) == value

\* line 259: Argv: params.Argv
ArgvValue_expanded(argv, secretsWrapped) ==
    [i \in 1..Len(argv) |-> parseSecrets(argv[i], secretsWrapped).s]
ArgvValue(argv, secretsWrapped) == argv

customizeParameters(params, specialSecrets, userSecrets) ==
    LET secretsWrapped == secretsWrapper(specialSecrets, userSecrets)
        files == [path \in DOMAIN params.Files |->
                     parseSecrets(params.Files[path], secretsWrapped)]
        env == [name \in DOMAIN params.Env |->
                   parseSecrets(params.Env[name], secretsWrapped)]
        newEnv == [name \in DOMAIN env |-> env[name].s]
        intermediateCaPem ==
            encodeSecretDataToPem(Resolve(<<"Marblerun", "RootCA", "Cert">>, secretsWrapped))
        marbleCertPem ==
            encodeSecretDataToPem(Resolve(<<"Marblerun", "MarbleCert", "Cert">>, secretsWrapped))
        encodedPrivKey ==
            encodeSecretDataToPem(Resolve(<<"Marblerun", "MarbleCert", "Private">>, secretsWrapped))
    IN IF \E path \in DOMAIN files : files[path].err # NoError
       THEN [err |-> TemplateError, params |-> NoParameters]
       ELSE IF \E name \in DOMAIN env : env[name].err # NoError
       THEN [err |-> TemplateError, params |-> NoParameters]
       ELSE IF ~intermediateCaPem.ok \/ ~marbleCertPem.ok \/ ~encodedPrivKey.ok
       THEN [err |-> [code |-> Unwrapped, about |-> "invalid secret type"],
             params |-> NoParameters]
       ELSE [err |-> NoError,
             params |->
                Parameters(ArgvValue(params.Argv, secretsWrapped),
                    [path \in DOMAIN files |-> files[path].s],
                    [name \in DOMAIN env \cup ReservedEnv |->
                        IF name = MarbleEnvironmentIntermediateCA
                        THEN ReservedValue(newEnv, name, intermediateCaPem.s)
                        ELSE IF name = MarbleEnvironmentCertificateChain
                        THEN ReservedValue(newEnv, name,
                                           marbleCertPem.s \o intermediateCaPem.s)
                        ELSE IF name = MarbleEnvironmentPrivateKey
                        THEN ReservedValue(newEnv, name, encodedPrivKey.s)
                        ELSE newEnv[name]])]

\* ----------------------------------------------------------- setTTLSConfig
TTLSEnv == "MARBLE_TTLS_CONFIG"

IncomingEntry(port, cert, disableClientAuth) ==
    [Port |-> port, Cert |-> cert, DisableClientAuth |-> disableClientAuth]
OutgoingEntry(addr, port) == [Addr |-> addr, Port |-> port]
TLSTag(incoming, outgoing) == [Incoming |-> incoming, Outgoing |-> outgoing]

\* manifest.TLS[tag]: the zero value when the tag is not defined
LookupTag(tls, tag) ==
    IF tag \in DOMAIN tls THEN tls[tag] ELSE TLSTag(<<>>, <<>>)

MapPut(m, k, v) == [x \in DOMAIN m \cup {k} |-> IF x = k THEN v ELSE m[x]]
NoConns == [k \in {} |-> 0]

OutgoingConf(stringCaCert, stringClientCert, stringClientKey) ==
    [cacrt |-> stringCaCert, clicrt |-> stringClientCert, clikey |-> stringClientKey]

\* variant: a named certificate leaves client authentication switched on
IncomingConf_auth(entry, userSecrets, stringCaCert, stringClientCert, stringClientKey) ==
    IF entry.Cert # ""
    THEN [clicrt |-> PemEncode("CERTIFICATE", LookupSecret(userSecrets, entry.Cert).Cert.Raw),
          clikey |-> PemEncode("PRIVATE KEY", LookupSecret(userSecrets, entry.Cert).Private),
          clientAuth |-> TRUE,
          cacrt |-> stringCaCert]
    ELSE [cacrt |-> stringCaCert, clicrt |-> stringClientCert,
          clikey |-> stringClientKey, clientAuth |-> TRUE]

IncomingConf(entry, userSecrets, stringCaCert, stringClientCert, stringClientKey) ==
    IF entry.Cert # ""
    THEN [clicrt |-> PemEncode("CERTIFICATE", LookupSecret(userSecrets, entry.Cert).Cert.Raw),
          clikey |-> PemEncode("PRIVATE KEY", LookupSecret(userSecrets, entry.Cert).Private),
          clientAuth |-> ~entry.DisableClientAuth,
          cacrt |-> stringCaCert]
    ELSE [cacrt |-> stringCaCert, clicrt |-> stringClientCert,
          clikey |-> stringClientKey, clientAuth |-> TRUE]

\* the Outgoing loop of one tag: later entries overwrite earlier ones
RECURSIVE PutOutgoing(_, _, _, _, _)
PutOutgoing(m, entries, ca, crt, key) ==
    IF entries = <<>> THEN m
    ELSE PutOutgoing(MapPut(m, Head(entries).Addr \o Lit(":") \o Head(entries).Port,
                            OutgoingConf(ca, crt, key)),
                     Tail(entries), ca, crt, key)

\* the Incoming loop of one tag
RECURSIVE PutIncoming(_, _, _, _, _, _)
PutIncoming(m, entries, userSecrets, ca, crt, key) ==
    IF entries = <<>> THEN m
    ELSE PutIncoming(MapPut(m, Lit("*:") \o Head(entries).Port,
                            IncomingConf(Head(entries), userSecrets, ca, crt, key)),
                     Tail(entries), userSecrets, ca, crt, key)

\* the loop over marble.TLS
RECURSIVE TagLoop(_, _, _, _, _, _, _)
TagLoop(conf, tags, tls, userSecrets, ca, crt, key) ==
    IF tags = <<>> THEN conf
    ELSE LET t == LookupTag(tls, Head(tags))
         IN TagLoop([Incoming |-> PutIncoming(conf.Incoming, t.Incoming,
                                              userSecrets, ca, crt, key),
                     Outgoing |-> PutOutgoing(conf.Outgoing, t.Outgoing, ca, crt, key)],
                    Tail(tags), tls, userSecrets, ca, crt, key)

\* the maps setTTLSConfig builds under ttlsConf["tls"]
ttlsConf(marble, specialSecrets, userSecrets, intermediateCert, tls) ==
    TagLoop([Incoming |-> NoConns, Outgoing |-> NoConns], marble.TLS, tls, userSecrets,
            PemEncode("CERTIFICATE", intermediateCert.Raw),
            PemEncode("CERTIFICATE", specialSecrets.MarbleCert.Cert.Raw),
            PemEncode("PRIVATE KEY", specialSecrets.MarbleCert.Private))

\* json.Marshal of the configuration: one member per connection
Marshal(conf) ==
    <<[enc |-> "json",
       entries |->
          {[dir |-> "Incoming", key |-> k, conf |-> conf.Incoming[k]] :
              k \in DOMAIN conf.Incoming}
          \cup {[dir |-> "Outgoing", key |-> k, conf |-> conf.Outgoing[k]] :
                  k \in DOMAIN conf.Outgoing}]>>

\* variant: a value the manifest defines for the variable is kept
setTTLSConfig_keep(marble, specialSecrets, userSecrets, intermediateCert, tls) ==
    IF Len(marble.TLS) = 0 \/ TTLSEnv \in DOMAIN marble.Parameters.Env THEN marble
    ELSE [marble EXCEPT !.Parameters.Env =
            MapPut(@, TTLSEnv,
                   Marshal(ttlsConf(marble, specialSecrets, userSecrets,
                                    intermediateCert, tls)))]

\* the marble as setTTLSConfig leaves it
setTTLSConfig(marble, specialSecrets, userSecrets, intermediateCert, tls) ==
    IF Len(marble.TLS) = 0 THEN marble
    ELSE [marble EXCEPT !.Parameters.Env =
            MapPut(@, TTLSEnv,
                   Marshal(ttlsConf(marble, specialSecrets, userSecrets,
                                    intermediateCert, tls)))]

\* variant: getManifest hands out the object the store holds
ManifestHeld_aliased(stored, written) == written

\* The marble the store holds after Activate has written through
\* marble.Parameters: getManifest hands out a value decoded from the store
\* and the store changes through its put operations only.
ManifestHeld(stored, written) == stored

\* lines 107-109: for k, v := range sharedSecrets { secrets[k] = v }
MergeSharedSecrets_generatedwins(secrets, sharedSecrets) ==
    [n \in DOMAIN secrets \cup DOMAIN sharedSecrets |->
        IF n \in DOMAIN secrets THEN secrets[n] ELSE sharedSecrets[n]]
MergeSharedSecrets(secrets, sharedSecrets) ==
    [n \in DOMAIN secrets \cup DOMAIN sharedSecrets |->
        IF n \in DOMAIN sharedSecrets THEN sharedSecrets[n] ELSE secrets[n]]

\* ------------------------------------------- manifests with parameters
\* what c.generateSecrets returns for one activation (line 96)
GeneratedSecretChoices ==
    {[n \in {} |-> ZeroSecret],
     [n \in {"userCert"} |-> Secret("genDER", "genPKCS8", "genPKIX")],
     [n \in {"perMarble"} |-> Secret("pmDER", "pmPKCS8", "pmPKIX")]}

\* what c.store.getSecretMap returns (line 103)
SharedSecretChoices ==
    {[n \in {} |-> ZeroSecret],
     [n \in {"userCert"} |-> Secret("userDER", "userPKCS8", "userPKIX")]}

\* Manifest.TLS
TLS0 ==
    [tag \in {"web", "db", "tpl", "broken"} |->
        IF tag = "web"
        THEN TLSTag(<<IncomingEntry(Lit("443"), "", FALSE),
                      IncomingEntry(Lit("8443"), "", TRUE)>>,
                    <<OutgoingEntry(Lit("db"), Lit("5432"))>>)
        ELSE IF tag = "db"
        THEN TLSTag(<<IncomingEntry(Lit("443"), "userCert", TRUE),
                      IncomingEntry(Lit("9000"), "userCert", FALSE)>>,
                    <<OutgoingEntry(Lit("db"), Lit("5432")),
                      OutgoingEntry(Lit("cache"), Lit("6379"))>>)
        ELSE IF tag = "tpl"
        THEN TLSTag(<<>>,
                    <<OutgoingEntry(Action("hex", <<"Marblerun", "SealKey", "Public">>),
                                    Lit("80"))>>)
        ELSE TLSTag(<<IncomingEntry(Unterminated, "", FALSE)>>, <<>>)]

\* Marble.TLS
TagChoices ==
    {<<>>, <<"web">>, <<"db">>, <<"web", "db">>, <<"db", "web">>, <<"ghost">>,
     <<"tpl">>, <<"broken">>}

\* Marble.Parameters.Env
EnvChoices ==
    {NoStrings,
     [n \in {"GREETING"} |->
         Lit("hello ") \o Action("raw", <<"Marblerun", "SealKey", "Public">>)],
     [n \in {"EDG_CA", "EDG_PRIVATE_KEY"} |->
         IF n = "EDG_CA" THEN Lit("manifest CA")
         ELSE Action("pem", <<"Marblerun", "RootCA", "Cert">>)],
     [n \in {"MARBLE_TTLS_CONFIG"} |-> Lit("{}")],
     [n \in {"BROKEN"} |-> Lit("a") \o Unterminated],
     [n \in {"BADTYPE"} |-> Action("pem", <<"Marblerun", "SealKey">>)]}

\* Marble.Parameters.Files
FileChoices ==
    {NoStrings,
     [n \in {"/cert.pem"} |-> Action("pem", <<"Secrets", "userCert", "Cert">>)],
     [n \in {"/bad"} |-> Action("raw", <<"Marblerun", "SealKey", "Type">>)]}

\* Marble.Parameters.Argv
Argv0 ==
    <<Lit("--serve"),
      Lit("--key=") \o Action("hex", <<"Marblerun", "SealKey", "Public">>)>>

MarbleChoices ==
    {[Parameters |-> Parameters(Argv0, f, e), TLS |-> t] :
        f \in FileChoices, e \in EnvChoices, t \in TagChoices}

\* ------------------------------------------------------------------ state
VARIABLES
    state,          \* Core.state
    mux,            \* Core.mux: 0 when free, else the handler holding it
    store,          \* Core.store
    simulationMode, \* the process-wide simulation flag
    pc,             \* position of each Activate handler
    req,            \* the ActivationReq each handler serves
    loc,            \* per-call locals carried from the budget check on
    last,           \* the call that returned in the last step, if one did
    calls,          \* per marble type: completed calls, counted while clean
    clean,          \* per marble type: every completed call was otherwise valid
    succ,           \* per marble type: calls that returned a response
    issuedCalls,    \* Activate calls issued so far
    px,             \* the parameters of one activation, from marble to response
    fn,             \* one application of a function of the manifest package
    certLog         \* the activations of one marble type, in order

vars == <<state, mux, store, simulationMode, pc, req, loc, last, calls, clean,
          succ, issuedCalls, px, fn, certLog>>

NoQuote == Quote("", 0, "")
NoReq == [MarbleType |-> ""]
NoLoc ==
    [pre |-> EmptyStore, quote |-> NoQuote, steps |-> <<>>, validated |-> <<>>]
NoCall ==
    [proc |-> 0, type |-> "", quote |-> NoQuote, state |-> "", pre |-> EmptyStore,
     post |-> EmptyStore, err |-> "none", steps |-> <<>>, validated |-> <<>>,
     faultA |-> "none", faultB |-> "none", resp |-> FALSE]

NoConf == [Incoming |-> NoConns, Outgoing |-> NoConns]
NoMarble == [Parameters |-> NoParameters, TLS |-> <<>>]
NoPx ==
    [stage |-> "none", input |-> NoMarble, marble |-> NoMarble,
     stored |-> NoMarble,
     generated |-> [n \in {} |-> ZeroSecret],
     shared |-> [n \in {} |-> ZeroSecret],
     userSecrets |-> [n \in {} |-> ZeroSecret], conf |-> NoConf,
     err |-> NoError, params |-> NoParameters]

NoFn == [op |-> "none"]

\* no Activate handler is running and none has run
HandlersIdle ==
    /\ mux = 0
    /\ pc = [p \in Procs |-> "idle"]
    /\ req = [p \in Procs |-> NoReq]
    /\ loc = [p \in Procs |-> NoLoc]
    /\ last = NoCall
    /\ calls = [t \in MarbleTypes |-> 0]
    /\ clean = [t \in MarbleTypes |-> TRUE]
    /\ succ = [t \in MarbleTypes |-> 0]
    /\ issuedCalls = 0

Init ==
    /\ state = stateUninitialized
    /\ mux = 0
    /\ store = EmptyStore
    /\ simulationMode \in BOOLEAN
    /\ pc = [p \in Procs |-> "idle"]
    /\ req = [p \in Procs |-> NoReq]
    /\ loc = [p \in Procs |-> NoLoc]
    /\ last = NoCall
    /\ calls = [t \in MarbleTypes |-> 0]
    /\ clean = [t \in MarbleTypes |-> TRUE]
    /\ succ = [t \in MarbleTypes |-> 0]
    /\ issuedCalls = 0
    /\ px = NoPx
    /\ fn = NoFn
    /\ certLog = <<>>

\* some infrastructure (or the zero infrastructure when none is defined)
\* validates the quote against the overlaid package
QuoteAcceptable(st, certQuote, marbleType) ==
    LET mainManifest == getManifest(st, "main")
        pkg == PackageOverlay(mainManifest, getManifest(st, "update"),
                              mainManifest.Marbles[marbleType].Package)
    IN IF DOMAIN mainManifest.Infrastructures = {}
       THEN Validate(certQuote, pkg, ZeroInfra)
       ELSE \E i \in DOMAIN mainManifest.Infrastructures :
                Validate(certQuote, pkg, mainManifest.Infrastructures[i])

\* the call met no failure other than, possibly, an exhausted budget
OtherwiseValid(c) ==
    /\ c.state = stateAcceptingMarbles
    /\ c.faultA = "none" /\ c.faultB = "none"
    /\ c.type \in DOMAIN getManifest(c.pre, "main").Marbles
    /\ (simulationMode \/ QuoteAcceptable(c.pre, c.quote, c.type))

\* bookkeeping at the return of a call
Returned(c) ==
    /\ last' = c
    /\ IF c.type \in MarbleTypes
       THEN /\ calls' = [calls EXCEPT ![c.type] =
                            IF clean[c.type] /\ OtherwiseValid(c) THEN @ + 1 ELSE 0]
            /\ clean' = [clean EXCEPT ![c.type] = @ /\ OtherwiseValid(c)]
            /\ succ' = [succ EXCEPT ![c.type] = IF c.resp THEN @ + 1 ELSE @]
       ELSE UNCHANGED <<calls, clean, succ>>

\* The environment's choices are told apart only where the call consumes
\* them: a failure is injected only at a step the call executes, and the
\* quote is recorded only when the verifier is handed it.
Fired(o, fault) ==
    fault = "none" \/ (o.err # NoErr /\ o.steps[Len(o.steps)] = fault)

SeenQuote(o, certQuote) == IF o.validated = <<>> THEN NoQuote ELSE certQuote

\* a marble connects and sends an ActivationReq
ActivateCall(p) ==
    /\ pc[p] = "idle"
    /\ issuedCalls < MaxCalls
    /\ \E t \in ReqTypes : req' = [req EXCEPT ![p] = [MarbleType |-> t]]
    /\ pc' = [pc EXCEPT ![p] = "lock"]
    /\ issuedCalls' = issuedCalls + 1
    /\ last' = NoCall
    /\ UNCHANGED <<state, mux, store, simulationMode, px, fn, certLog, loc, calls,
                   clean, succ>>

\* requireState takes Core.mux
ActivateLock(p) ==
    /\ pc[p] = "lock"
    /\ mux = 0
    /\ mux' = p
    /\ pc' = [pc EXCEPT ![p] = "verify"]
    /\ loc' = [loc EXCEPT ![p] = [NoLoc EXCEPT !.pre = store]]
    /\ last' = NoCall
    /\ UNCHANGED <<state, store, simulationMode, px, fn, certLog, req, calls, clean,
                   succ, issuedCalls>>

\* Activate from the state gate through verifyManifestRequirement
ActivateVerify(p) ==
    /\ pc[p] = "verify"
    /\ \E fault \in HeadFaults \cup {"none"}, certQuote \in Quotes,
          order \in Orders(getManifest(store, "main").Infrastructures) :
        LET o == ActivateHead(state, store, simulationMode, certQuote,
                              req[p].MarbleType, order, fault)
        IN /\ Fired(o, fault)
           /\ store' = o.store
           /\ IF o.err # NoErr
              THEN /\ Returned([proc |-> p, type |-> req[p].MarbleType,
                                quote |-> SeenQuote(o, certQuote), state |-> state,
                                pre |-> loc[p].pre, post |-> o.store, err |-> o.err,
                                steps |-> o.steps, validated |-> o.validated,
                                faultA |-> fault, faultB |-> "none", resp |-> FALSE])
                   /\ mux' = MuxAfterReturn(p, o.err)
                   /\ pc' = [pc EXCEPT ![p] = "idle"]
                   /\ req' = [req EXCEPT ![p] = NoReq]
                   /\ loc' = [loc EXCEPT ![p] = NoLoc]
              ELSE /\ mux' = MuxAfterVerify(p)
                   /\ pc' = [pc EXCEPT ![p] = "issue"]
                   /\ loc' = [loc EXCEPT ![p] = [@ EXCEPT !.quote = SeenQuote(o, certQuote),
                                                         !.steps = o.steps,
                                                         !.validated = o.validated]]
                   /\ last' = NoCall
                   /\ UNCHANGED <<req, calls, clean, succ>>
    /\ UNCHANGED <<state, simulationMode, issuedCalls, px, fn, certLog>>

\* Activate from uuid.Parse to its return
ActivateIssue(p) ==
    /\ pc[p] = "issue"
    /\ \E fault \in IssueFaults \cup {"none"}, nilKey \in BOOLEAN :
        LET o == ActivateTail(store, req[p].MarbleType, fault, nilKey)
        IN /\ store' = o.store
           /\ Returned([proc |-> p, type |-> req[p].MarbleType,
                        quote |-> loc[p].quote, state |-> state,
                        pre |-> loc[p].pre, post |-> o.store,
                        err |-> IF o.err = NoErr THEN OK ELSE o.err,
                        steps |-> loc[p].steps \o o.steps,
                        validated |-> loc[p].validated,
                        faultA |-> "none", faultB |-> fault, resp |-> o.resp])
           /\ mux' = MuxAfterReturn(p, o.err)
    /\ pc' = [pc EXCEPT ![p] = "idle"]
    /\ req' = [req EXCEPT ![p] = NoReq]
    /\ loc' = [loc EXCEPT ![p] = NoLoc]
    /\ UNCHANGED <<state, simulationMode, issuedCalls, px, fn, certLog>>

\* the administrator commits the manifest (under Core.mux)
SetManifest ==
    /\ state = stateUninitialized
    /\ mux = 0
    /\ \E mf \in ManifestChoices : store' = putManifest(store, "main", mf)
    /\ state' = stateAcceptingMarbles
    /\ last' = NoCall
    /\ UNCHANGED <<mux, simulationMode, px, fn, certLog, pc, req, loc, calls, clean,
                   succ, issuedCalls>>

\* the administrator raises a package's security version (under Core.mux)
UpdateManifest ==
    /\ state = stateAcceptingMarbles
    /\ mux = 0
    /\ "update" \notin DOMAIN store.manifests
    /\ store' = putManifest(store, "update", UpdateChoice)
    /\ last' = NoCall
    /\ UNCHANGED <<state, mux, simulationMode, px, fn, certLog, pc, req, loc, calls,
                   clean, succ, issuedCalls>>

Next ==
    \/ \E p \in Procs : ActivateCall(p)
    \/ \E p \in Procs : ActivateLock(p)
    \/ \E p \in Procs : ActivateVerify(p)
    \/ \E p \in Procs : ActivateIssue(p)
    \/ SetManifest
    \/ UpdateManifest

Spec == Init /\ [][Next]_vars

\* ------------------------------------ the parameters of one activation
\* Activate from the marble lookup (line 111) to the response (line 130),
\* for each marble a manifest may define and each set of user secrets.
\* the certificate c.store.getCertificate("intermediate") returns
IntermediateCert == AuthSecrets.RootCA.Cert

ParamInit ==
    /\ state = stateAcceptingMarbles
    /\ mux = 0
    /\ store = EmptyStore
    /\ simulationMode = FALSE
    /\ pc = [p \in Procs |-> "idle"]
    /\ req = [p \in Procs |-> NoReq]
    /\ loc = [p \in Procs |-> NoLoc]
    /\ last = NoCall
    /\ calls = [t \in MarbleTypes |-> 0]
    /\ clean = [t \in MarbleTypes |-> TRUE]
    /\ succ = [t \in MarbleTypes |-> 0]
    /\ issuedCalls = 0
    /\ fn = NoFn
    /\ certLog = <<>>
    /\ \E m \in MarbleChoices, g \in GeneratedSecretChoices,
          sh \in SharedSecretChoices :
          px = [NoPx EXCEPT !.stage = "secrets", !.input = m, !.marble = m,
                           !.stored = m,
                           !.generated = g, !.shared = sh]

\* lines 102-109: the shared secrets are merged into the generated ones
ActivateGetSecretMap ==
    /\ px.stage = "secrets"
    /\ px' = [px EXCEPT
                !.stage = "marble",
                !.userSecrets = MergeSharedSecrets(px.generated, px.shared)]
    /\ UNCHANGED <<state, mux, store, simulationMode, pc, req, loc, last, calls,
                   clean, succ, issuedCalls, fn, certLog>>

\* lines 115-119: c.setTTLSConfig(marble, authSecrets, secrets)
ActivateSetTTLSConfig ==
    /\ px.stage = "marble"
    /\ px' = [px EXCEPT
                !.stage = "ttls",
                !.marble = setTTLSConfig(px.marble, AuthSecrets, px.userSecrets,
                                         IntermediateCert, TLS0),
                !.stored = ManifestHeld(px.stored,
                               setTTLSConfig(px.marble, AuthSecrets, px.userSecrets,
                                             IntermediateCert, TLS0)),
                !.conf = IF Len(px.marble.TLS) = 0 THEN NoConf
                         ELSE ttlsConf(px.marble, AuthSecrets, px.userSecrets,
                                       IntermediateCert, TLS0)]
    /\ UNCHANGED <<state, mux, store, simulationMode, pc, req, loc, last, calls,
                   clean, succ, issuedCalls, fn, certLog>>

\* lines 121-130: customizeParameters(marble.Parameters, authSecrets, secrets)
ActivateCustomizeParameters ==
    /\ px.stage = "ttls"
    /\ LET r == customizeParameters(px.marble.Parameters, AuthSecrets, px.userSecrets)
       IN px' = [px EXCEPT !.stage = "resp", !.err = r.err, !.params = r.params]
    /\ UNCHANGED <<state, mux, store, simulationMode, pc, req, loc, last, calls,
                   clean, succ, issuedCalls, fn, certLog>>

ParamNext ==
    \/ ActivateGetSecretMap
    \/ ActivateSetTTLSConfig
    \/ ActivateCustomizeParameters

ParamSpec == ParamInit /\ [][ParamNext]_vars

\* ----------------------------------------------------- gramine-prepare
\* A TOML value is tagged with its Go type; a tree maps the dotted keys the
\* manifest defines to their values.
premainName == "premain-libos"
uuidName == "uuid"

Nil == [t |-> "nil"]
Str(s) == [t |-> "string", s |-> s]
Bool(b) == [t |-> "bool", b |-> b]
Int64(n) == [t |-> "int", n |-> n]
Arr(a) == [t |-> "array", a |-> a]
\* a *toml.Tree: the legacy table form of a file list
Table == [t |-> "tree"]

\* tree.Get(key)
Get(tree, key) == IF key \in DOMAIN tree THEN tree[key] ELSE Nil

\* insertFile: what it leaves in the two maps
insertFile(original, changes, fileType, fileName, tree) ==
    LET fileTree == Get(tree, "sgx." \o fileType)
    IN IF fileTree = Nil
       THEN [err |-> FALSE, original |-> original,
             changes |-> MapPut(changes, "sgx." \o fileType,
                                Arr(<<"file:" \o fileName>>))]
       ELSE IF fileTree.t = "tree"
       THEN [err |-> FALSE, original |-> original,
             changes |-> MapPut(changes,
                                "sgx." \o fileType \o ".marblerun_" \o fileName,
                                Str("file:" \o fileName))]
       ELSE IF fileTree.t = "array"
       THEN [err |-> FALSE,
             original |-> MapPut(original, "sgx." \o fileType, fileTree),
             changes |-> MapPut(changes, "sgx." \o fileType,
                                Arr(Append(fileTree.a, "file:" \o fileName)))]
       ELSE [err |-> TRUE, original |-> original, changes |-> changes]

NoValues == [k \in {} |-> Nil]

\* parseTreeForChanges: `original` holds the ten keys looked up first; the
\* enclave size is datasize.ByteSize.UnmarshalText followed by
\* GBytes() < 1.00, for the sizes the manifests of the model use
parseTreeForChanges(tree) ==
    LET PassthroughKeys ==
            {"loader.env.EDG_MARBLE_COORDINATOR_ADDR", "loader.env.EDG_MARBLE_TYPE",
             "loader.env.EDG_MARBLE_UUID_FILE", "loader.env.EDG_MARBLE_DNS_NAMES"}
        OriginalKeys ==
            {"libos.entrypoint", "loader.insecure__use_host_env",
             "loader.argv0_override", "sgx.remote_attestation",
             "sgx.enclave_size", "sgx.thread_num"} \cup PassthroughKeys
        BelowOneGB(size) == size = Nil \/ size.s \in {"256M", "512M"}
        original == [k \in OriginalKeys |-> Get(tree, k)]
        f1 == insertFile(original, NoValues, "trusted_files", premainName, tree)
        f2 == insertFile(f1.original, f1.changes, "allowed_files", uuidName, tree)
        hostEnv == original["loader.insecure__use_host_env"]
        attest == original["sgx.remote_attestation"]
        threads == original["sgx.thread_num"]
        c1 == MapPut(f2.changes, "libos.entrypoint", Str(premainName))
        c2 == IF original["loader.argv0_override"] = Nil
              THEN MapPut(c1, "loader.argv0_override", original["libos.entrypoint"])
              ELSE c1
        pass == IF hostEnv = Nil \/ ~hostEnv.b
                THEN {k \in PassthroughKeys : original[k] = Nil} ELSE {}
        c3 == [k \in DOMAIN c2 \cup pass |->
                  IF k \in pass THEN Str("{ passthrough = true }") ELSE c2[k]]
        c4 == IF attest = Nil \/ ~attest.b
              THEN MapPut(c3, "sgx.remote_attestation", Bool(TRUE)) ELSE c3
        c5 == IF BelowOneGB(original["sgx.enclave_size"])
              THEN MapPut(c4, "sgx.enclave_size", Str("1024M")) ELSE c4
        c6 == IF threads = Nil \/ threads.n < 16
              THEN MapPut(c5, "sgx.thread_num", Int64(16)) ELSE c5
    IN IF original["libos.entrypoint"] = Nil \/ f1.err \/ f2.err
       THEN [err |-> TRUE, original |-> NoValues, changes |-> NoValues]
       ELSE [err |-> FALSE, original |-> f2.original, changes |-> c6]

\* one diff of calculateChanges; the text of its manifest entry is
\* `index = "v"`, `index = [ "v", ... ]` or `index = v`
Diff(index, originalValue, changedValue) ==
    LET Entry(form, value) == [index |-> index, form |-> form, value |-> value]
    IN
    [alreadyExists |-> originalValue # Nil,
     entryType |-> IF changedValue.t = "array" THEN "array" ELSE "string",
     manifestEntry |->
        IF changedValue.t = "string" THEN Entry("quoted", changedValue.s)
        ELSE IF changedValue.t = "array" THEN Entry("array", changedValue.a)
        ELSE IF changedValue.t = "bool" THEN Entry("bare", changedValue.b)
        ELSE Entry("bare", changedValue.n)]

\* the keys in the byte order of their entries (an entry is its key followed
\* by " = ", and no key is a prefix of another)
KeyOrder ==
    <<"libos.entrypoint", "loader.argv0_override",
      "loader.env.EDG_MARBLE_COORDINATOR_ADDR", "loader.env.EDG_MARBLE_DNS_NAMES",
      "loader.env.EDG_MARBLE_TYPE", "loader.env.EDG_MARBLE_UUID_FILE",
      "loader.insecure__use_host_env", "sgx.allowed_files", "sgx.enclave_size",
      "sgx.remote_attestation", "sgx.thread_num", "sgx.trusted_files">>

\* calculateChanges: one diff per key of `original` that `updates` defines,
\* sorted by entry
calculateChanges(original, updates) ==
    LET Changed(index) == index \in DOMAIN original /\ index \in DOMAIN updates
        indices == SelectSeq(KeyOrder, Changed)
    IN [i \in DOMAIN indices |->
           Diff(indices[i], original[indices[i]], updates[indices[i]])]

\* the Gramine manifests gramine-prepare is run on
FileListChoices == {Nil, Table, Arr(<<"file:app">>)}

SettingsChoices ==
    {NoValues,
     [k \in {"loader.argv0_override", "loader.insecure__use_host_env",
             "sgx.remote_attestation", "sgx.enclave_size", "sgx.thread_num"} |->
         IF k = "loader.argv0_override" THEN Str("app")
         ELSE IF k = "loader.insecure__use_host_env" THEN Bool(FALSE)
         ELSE IF k = "sgx.remote_attestation" THEN Bool(TRUE)
         ELSE IF k = "sgx.enclave_size" THEN Str("2G")
         ELSE Int64(32)],
     [k \in {"loader.insecure__use_host_env", "sgx.enclave_size",
             "sgx.thread_num"} |->
         IF k = "loader.insecure__use_host_env" THEN Bool(TRUE)
         ELSE IF k = "sgx.enclave_size" THEN Str("512M")
         ELSE Int64(4)]}

TreeChoices ==
    LET TreeOf(entrypoint, trusted, allowed, settings) ==
            LET keys == DOMAIN settings
                        \cup (IF entrypoint THEN {"libos.entrypoint"} ELSE {})
                        \cup (IF trusted # Nil THEN {"sgx.trusted_files"} ELSE {})
                        \cup (IF allowed # Nil THEN {"sgx.allowed_files"} ELSE {})
            IN [k \in keys |->
                   IF k = "libos.entrypoint" THEN Str("app")
                   ELSE IF k = "sgx.trusted_files" THEN trusted
                   ELSE IF k = "sgx.allowed_files" THEN allowed
                   ELSE settings[k]]
    IN {TreeOf(e, tf, af, s) : e \in BOOLEAN, tf \in FileListChoices,
                               af \in FileListChoices, s \in SettingsChoices}

\* A manifest file is a sequence of lines: a declaration `index = ...` on
\* one line ("flat"), the same with more than one blank before the equals
\* sign ("wide"), an array declaration that runs over several lines up to a
\* closing bracket at a line end ("block", counted as one line), the rest of
\* such a block whose first line was replaced ("rest"), or a comment.
Line(index, decl, body) == [index |-> index, decl |-> decl, body |-> body]

\* commentMarbleRunAdditions
commentMarbleRunAdditions ==
    Line("#", "comment", "MARBLERUN -- auto generated configuration entries")

\* the line a diff's manifestEntry makes in the file
EntryLine(value) ==
    Line(value.manifestEntry.index,
         IF value.entryType = "array" THEN "block" ELSE "flat",
         value.manifestEntry)

\* variant: only the first match is reported
regexMatches_first(entryType, key, content) ==
    LET all == {i \in DOMAIN content :
                   /\ content[i].index = key
                   /\ content[i].decl \in
                        (IF entryType = "string" THEN {"flat", "block"} ELSE {"block"})}
    IN {i \in all : \A j \in all : i <= j}

\* regex.FindAll: "(?m)^key\s?=.*$" for a string entry matches a flat
\* declaration of the key and the first line of a block; "(?m)^key\s?=
\* ([^\]]*)\]$" for an array entry matches a block of the key.  (After a
\* flat declaration the array pattern would run on to the next closing
\* bracket at a line end; no file of the model declares an array-typed key
\* flat.)
regexMatches(entryType, key, content) ==
    {i \in DOMAIN content :
        /\ content[i].index = key
        /\ content[i].decl \in
             (IF entryType = "string" THEN {"flat", "block"} ELSE {"block"})}

\* the loop of appendAndReplace over the remaining diffs
RECURSIVE appendLoop(_, _, _)
appendLoop(changeDiffs, newManifestContent, firstAdditionDone) ==
    IF changeDiffs = <<>> THEN [err |-> "", content |-> newManifestContent]
    ELSE LET value == Head(changeDiffs)
             AppendError(message) == [err |-> message, content |-> <<>>]
             \* regex.ReplaceAll at the one match
             ReplaceAt(content, i) ==
                 SubSeq(content, 1, i - 1)
                 \o (IF value.entryType = "string" /\ content[i].decl = "block"
                     THEN <<EntryLine(value), Line("", "rest", content[i].body)>>
                     ELSE <<EntryLine(value)>>)
                 \o SubSeq(content, i + 1, Len(content))
             key == value.manifestEntry.index
             regexMatch == regexMatches(value.entryType, key, newManifestContent)
         IN IF value.alreadyExists
            THEN IF value.entryType \notin {"string", "array"}
                 THEN AppendError("unknown manifest entry type")
                 ELSE IF regexMatch = {}
                 THEN AppendError("failed to detect position of config entry")
                 ELSE IF Cardinality(regexMatch) > 1
                 THEN AppendError("found multiple matches for a single entry")
                 ELSE appendLoop(Tail(changeDiffs),
                                 ReplaceAt(newManifestContent,
                                           CHOOSE i \in regexMatch : TRUE),
                                 firstAdditionDone)
            ELSE appendLoop(Tail(changeDiffs),
                            (IF firstAdditionDone THEN newManifestContent
                             ELSE Append(newManifestContent, commentMarbleRunAdditions))
                            \o <<EntryLine(value)>>,
                            TRUE)

appendAndReplace(changeDiffs, manifestContent) ==
    appendLoop(changeDiffs, manifestContent, FALSE)

\* change lists handed to appendAndReplace
DiffChoices ==
    LET DiffEntrypoint == Diff("libos.entrypoint", Str("app"), Str(premainName))
        DiffArgv0 == Diff("loader.argv0_override", Nil, Str("app"))
        DiffAttestation == Diff("sgx.remote_attestation", Nil, Bool(TRUE))
        DiffTrusted ==
            Diff("sgx.trusted_files", Arr(<<"file:app">>),
                 Arr(<<"file:app", "file:premain-libos">>))
        DiffAllowed == Diff("sgx.allowed_files", Nil, Arr(<<"file:uuid">>))
    IN {<<>>,
        <<DiffEntrypoint, DiffTrusted>>,
        <<DiffEntrypoint, DiffArgv0, DiffAttestation>>,
        <<DiffArgv0, DiffEntrypoint, DiffAllowed, DiffTrusted, DiffAttestation>>,
        <<DiffAttestation, DiffTrusted>>}

\* manifest files handed to appendAndReplace
ContentChoices ==
    LET LineEntrypoint(decl) == Line("libos.entrypoint", decl, "app")
        LineTrusted == Line("sgx.trusted_files", "block", <<"file:app">>)
        LineComment == Line("#", "comment", "hello world")
    IN {<<LineComment, LineEntrypoint("flat"), LineTrusted>>,
        <<LineEntrypoint("flat"), LineTrusted, LineEntrypoint("flat")>>,
        <<LineEntrypoint("wide"), LineTrusted>>,
        <<LineComment, LineEntrypoint("flat")>>,
        <<LineEntrypoint("flat"), LineTrusted, LineTrusted>>}

\* --------------------------------- the functions of the manifest package
\* Manifest.Check, verifyManifestRequirement over a manifest whether or not
\* it was checked, and the template encoders, each applied to inputs drawn
\* from the sets below.
PackageChoices ==
    {[p \in {} |-> 0], Packages0, [p \in {"pkgA"} |-> Packages0[p]]}

MarblesChoices ==
    {[m \in {} |-> 0], Marbles0(1),
     [m \in {"frontend"} |-> Marbles0(1)[m]],
     [m \in {"frontend", "backend"} |->
         IF m = "frontend" THEN [Package |-> "ghost", MaxActivations |-> 0]
         ELSE Marbles0(1)[m]]}

\* manifests as they are uploaded, consistent or not
UncheckedManifests ==
    {Manifest(pkgs, inf, marbles) :
        pkgs \in PackageChoices, inf \in InfraChoices, marbles \in MarblesChoices}

\* the values a template can hand to an encoder
DataChoices ==
    {[kind |-> k, bytes |-> b] :
        k \in {"bytes", "PrivateKey", "PublicKey", "Certificate", "string", "int"},
        b \in {"", "b1", "b2"}}
    \cup {[kind |-> "Secret", secret |-> Secret(c, "priv", pub)] :
            c \in {"", "der"}, pub \in {"", "pub"}}

EncoderNames == {"pem", "hex", "raw", "base64"}

FuncInit ==
    /\ state = stateAcceptingMarbles
    /\ store = EmptyStore
    /\ simulationMode = FALSE
    /\ HandlersIdle
    /\ px = NoPx
    /\ certLog = <<>>
    /\ \/ \E mf \in UncheckedManifests :
             fn = [op |-> "Check", manifest |-> mf, results |-> <<>>]
       \/ \E mf \in UncheckedManifests, t \in ReqTypes, q \in Quotes :
             fn = [op |-> "verify", manifest |-> mf, type |-> t, quote |-> q,
                   done |-> FALSE, out |-> Out(NoErr, EmptyStore, <<>>, <<>>)]
       \/ \E f \in EncoderNames, d \in DataChoices :
             fn = [op |-> "encode", func |-> f, data |-> d, done |-> FALSE,
                   out |-> EncodeError]
       \/ \E tree \in TreeChoices :
             fn = [op |-> "prepare", tree |-> tree, done |-> FALSE, err |-> FALSE,
                   changeDiffs |-> <<>>]
       \/ \E d \in DiffChoices, c \in ContentChoices :
             fn = [op |-> "append", changeDiffs |-> d, content |-> c,
                   done |-> FALSE, out |-> [err |-> "", content |-> <<>>]]

\* m.Check(ctx), called twice on the same manifest
ApplyCheck ==
    /\ fn.op = "Check"
    /\ Len(fn.results) < 2
    /\ fn' = [fn EXCEPT !.results = Append(@, Check(fn.manifest))]
    /\ UNCHANGED <<state, mux, store, simulationMode, pc, req, loc, last, calls,
                   clean, succ, issuedCalls, px, certLog>>

\* c.verifyManifestRequirement with fn.manifest stored as main
ApplyVerify ==
    /\ fn.op = "verify"
    /\ ~fn.done
    /\ \E order \in Orders(fn.manifest.Infrastructures) :
          fn' = [fn EXCEPT
                    !.done = TRUE,
                    !.out = verifyManifestRequirement(
                                putManifest(EmptyStore, "main", fn.manifest),
                                FALSE, fn.quote, fn.type, order, "none")]
    /\ UNCHANGED <<state, mux, store, simulationMode, pc, req, loc, last, calls,
                   clean, succ, issuedCalls, px, certLog>>

\* one call of a template function
ApplyEncoder ==
    /\ fn.op = "encode"
    /\ ~fn.done
    /\ fn' = [fn EXCEPT !.done = TRUE,
                        !.out = manifestTemplateFuncMap(fn.func, fn.data)]
    /\ UNCHANGED <<state, mux, store, simulationMode, pc, req, loc, last, calls,
                   clean, succ, issuedCalls, px, certLog>>

\* addToGramineManifest from parseTreeForChanges to the change list
ApplyPrepare ==
    /\ fn.op = "prepare"
    /\ ~fn.done
    /\ LET r == parseTreeForChanges(fn.tree)
       IN fn' = [fn EXCEPT
                    !.done = TRUE,
                    !.err = r.err,
                    !.changeDiffs = IF r.err THEN <<>>
                                    ELSE calculateChanges(r.original, r.changes)]
    /\ UNCHANGED <<state, mux, store, simulationMode, pc, req, loc, last, calls,
                   clean, succ, issuedCalls, px, certLog>>

\* one call of appendAndReplace
ApplyAppend ==
    /\ fn.op = "append"
    /\ ~fn.done
    /\ fn' = [fn EXCEPT !.done = TRUE,
                        !.out = appendAndReplace(fn.changeDiffs, fn.content)]
    /\ UNCHANGED <<state, mux, store, simulationMode, pc, req, loc, last, calls,
                   clean, succ, issuedCalls, px, certLog>>

FuncNext ==
    \/ ApplyCheck
    \/ ApplyVerify
    \/ ApplyEncoder
    \/ ApplyPrepare
    \/ ApplyAppend

FuncSpec == FuncInit /\ [][FuncNext]_vars

\* ------------------------------------------- activations one after another
\* Whole Activate calls in sequence (Core.mux serialises them), each with
\* its request UUID and with the values its random sources return.
UUIDs == {"uuid-1", "uuid-2"}
\* what util.GenerateCertificateSerialNumber may return
Serials == {1, 2}
\* what ecdsa.GenerateKey may return
Keys == {"key-1", "key-2"}
\* the CSR of every request
CSR0 == [CommonName |-> "marble", DNSNames |-> <<"localhost">>]

NoCert == [SerialNumber |-> 0]

\* generateCertFromCSR, for a CSR that parses and verifies
generateCertFromCSR(csr, pubk, marbleType, marbleUUID, serialNumber) ==
    [SerialNumber |-> serialNumber,
     CommonName |-> marbleUUID,
     DNSNames |-> csr.DNSNames,
     PublicKey |-> pubk,
     Issuer |-> "intermediate",
     IsCA |-> FALSE]

\* variant: a certificate issued earlier for the same marble is returned
IssuedCert_cached(log, marbleType, marbleUUID, certRaw) ==
    IF \E i \in DOMAIN log :
          /\ log[i].type = marbleType /\ log[i].uuid = marbleUUID
          /\ log[i].err = OK
    THEN log[CHOOSE i \in DOMAIN log :
                /\ log[i].type = marbleType /\ log[i].uuid = marbleUUID
                /\ log[i].err = OK].cert
    ELSE certRaw

\* the leaf certificate of an activation: the one generateCertFromCSR has
\* just made (no earlier activation is consulted)
IssuedCert(log, marbleType, marbleUUID, certRaw) == certRaw

IssueInit ==
    /\ state = stateAcceptingMarbles
    /\ store = putManifest(EmptyStore, "main",
                           Manifest(Packages0, NoInfrastructures, Marbles0(MaxK)))
    /\ simulationMode = FALSE
    /\ HandlersIdle
    /\ px = NoPx
    /\ fn = NoFn
    /\ certLog = <<>>

\* one valid Activate call, from the state gate to its return
ActivateInTurn ==
    /\ Len(certLog) < MaxRepeat
    /\ \E t \in MarbleTypes, u \in UUIDs, serialNumber \in Serials,
          privk \in Keys, q \in Quotes,
          order \in Orders(getManifest(store, "main").Infrastructures) :
        LET h == ActivateHead(state, store, simulationMode, q, t, order, "none")
            o == ActivateTail(h.store, t, "none", FALSE)
            certRaw == generateCertFromCSR(CSR0, privk, t, u, serialNumber)
            ok == h.err = NoErr /\ o.err = NoErr
            after == IF h.err = NoErr THEN o.store ELSE h.store
        IN /\ h.err \in {NoErr, ResourceExhausted}
           /\ store' = after
           /\ certLog' =
                 Append(certLog,
                        [type |-> t, uuid |-> u, serial |-> serialNumber,
                         privk |-> privk,
                         err |-> IF ok THEN OK
                                 ELSE IF h.err # NoErr THEN h.err ELSE o.err,
                         cert |-> IF ok THEN IssuedCert(certLog, t, u, certRaw)
                                  ELSE NoCert,
                         before |-> Count(store, t),
                         after |-> Count(after, t)])
    /\ UNCHANGED <<state, mux, simulationMode, pc, req, loc, last, calls, clean,
                   succ, issuedCalls, px, fn>>

IssueNext == ActivateInTurn

IssueSpec == IssueInit /\ [][IssueNext]_vars

\* ----------------------------------------------------------- properties
Range(f) == {f[i] : i \in DOMAIN f}
Min(a, b) == IF a <= b THEN a ELSE b
InCall(p) == pc[p] \in {"verify", "issue"}
HasMain(st) == "main" \in DOMAIN st.manifests
MaxAct(st, t) == getManifest(st, "main").Marbles[t].MaxActivations
\* a call has just returned
Done == last.proc # 0
\* the steps of the returned call before its last one
Earlier(c) == {c.steps[i] : i \in 1..(Len(c.steps) - 1)}
\* the returned call got past verifyManifestRequirement
HeadPassed(c) == "uuid.Parse" \in Range(c.steps)

\* C1: an Activate call made in a state other than acceptingMarbles returns
\* FailedPrecondition (and only such a call does), calls no Validate, issues
\* no certificate, returns no response and leaves the store as it was.
C1_StateGate ==
    Done =>
        /\ (last.err = FailedPrecondition) <=> (last.state # stateAcceptingMarbles)
        /\ last.state # stateAcceptingMarbles =>
              /\ last.steps = <<"requireState">>
              /\ last.validated = <<>>
              /\ "CreateCertificate" \notin Range(last.steps)
              /\ ~last.resp
              /\ last.post = last.pre

C1_Witness ==
    Done /\ last.state = stateUninitialized /\ last.err = FailedPrecondition

\* C2: for a marble type with MaxActivations = k > 0 whose calls so far were
\* all otherwise valid, starting from an absent counter: the first k calls
\* succeed, every later one fails with ResourceExhausted, and the stored
\* counter is min(number of calls, k).
C2_Budget ==
    \A t \in MarbleTypes :
        (HasMain(store) /\ clean[t] /\ MaxAct(store, t) > 0) =>
            /\ Count(store, t) = Min(calls[t], MaxAct(store, t))
            /\ succ[t] = Min(calls[t], MaxAct(store, t))
            /\ (Done /\ last.type = t) =>
                  last.err = IF calls[t] <= MaxAct(store, t)
                             THEN OK ELSE ResourceExhausted

C2_Witness ==
    /\ Done /\ last.type = "frontend" /\ clean["frontend"]
    /\ calls["frontend"] = MaxAct(store, "frontend") + 1
    /\ last.err = ResourceExhausted
    /\ Count(store, "frontend") = MaxAct(store, "frontend")

\* C3: no two Activate calls are between the state gate and their return at
\* the same time, so no step of another call separates a call's budget read
\* from its increment; the counter of a type with MaxActivations = k > 0
\* never exceeds k and at most k calls for it return success.
C3_NoTOCTOU ==
    /\ \A p, q \in Procs : (InCall(p) /\ InCall(q)) => p = q
    /\ \A p \in Procs : InCall(p) => mux = p
    /\ \A t \in MarbleTypes :
          (HasMain(store) /\ MaxAct(store, t) > 0) =>
              /\ Count(store, t) <= MaxAct(store, t)
              /\ succ[t] <= MaxAct(store, t)

C3_Witness ==
    \E p, q \in Procs :
        /\ pc[p] = "issue" /\ pc[q] = "lock"
        /\ req[p].MarbleType = "frontend" /\ req[q].MarbleType = "frontend"
        /\ Count(store, "frontend") + 1 = MaxAct(store, "frontend")

\* C4: a successful Activate call of type M leaves M's counter at its value
\* before the call plus 1 (absent counting as 0) and the counter of every
\* other type as it was.
C4_Increment ==
    (Done /\ last.err = OK) =>
        /\ IsSet(last.post, last.type)
        /\ Count(last.post, last.type) = Count(last.pre, last.type) + 1
        /\ \A t \in ReqTypes \ {last.type} :
              /\ IsSet(last.post, t) <=> IsSet(last.pre, t)
              /\ Count(last.post, t) = Count(last.pre, t)

C4_Witness ==
    /\ Done /\ last.err = OK /\ ~IsSet(last.pre, last.type)
    /\ \E t \in MarbleTypes \ {last.type} : Count(last.pre, t) > 0

\* C5: an Activate call that returns an error leaves no activation counter
\* greater than before, and no step of it follows incrementActivations.
C5_NoIncrementOnError ==
    (Done /\ last.err # OK) =>
        /\ \A t \in ReqTypes : Count(last.post, t) <= Count(last.pre, t)
        /\ "incrementActivations" \notin Earlier(last)

C5_Witness ==
    /\ Done /\ last.err = Unwrapped /\ last.faultB = "customizeParameters"
    /\ Count(last.pre, last.type) > 0

\* C6 (as stated): an Activate call that returns an error leaves the whole
\* store, the presence of each counter included, as it was.
C6_StoreUnchanged ==
    (Done /\ last.err # OK) => last.post = last.pre

\* C6 (amended): an Activate call that returns an error leaves manifests,
\* secrets, certificates and keys as they were and every counter at the same
\* numeric value; a counter that was set stays set; the requested type's
\* counter, when absent before, is set to 0 exactly when the call executed
\* the putActivations seed without failure.
C6_StoreUnchangedButSeed ==
    (Done /\ last.err # OK) =>
        /\ [last.post EXCEPT !.activations = last.pre.activations] = last.pre
        /\ \A t \in ReqTypes :
              /\ Count(last.post, t) = Count(last.pre, t)
              /\ IsSet(last.pre, t) => IsSet(last.post, t)
              /\ (IsSet(last.post, t) /\ ~IsSet(last.pre, t)) <=>
                    /\ t = last.type
                    /\ ~IsSet(last.pre, t)
                    /\ "putActivations" \in Range(last.steps)
                    /\ last.faultA # "putActivations"

C6_Witness ==
    /\ Done /\ last.faultB = "uuid.Parse" /\ last.err = Unwrapped
    /\ ~IsSet(last.pre, last.type) /\ IsSet(last.post, last.type)
    /\ Count(last.post, last.type) = 0

\* C7: the mutex is held only by a call that has not returned yet: after
\* any return (gate failure, error, success) it is free, so a waiting call
\* can take it.
C7_LockReleased ==
    /\ \A p \in Procs : mux = p => InCall(p)
    /\ mux \in Procs \cup {0}
    /\ Done => mux = 0
    /\ (\A p \in Procs : ~InCall(p)) =>
          \A q \in Procs : pc[q] = "lock" => ENABLED ActivateLock(q)

C7_Witness ==
    /\ Done /\ last.err = Unauthenticated /\ mux = 0
    /\ \E q \in Procs : pc[q] = "lock"

\* C8 (as stated): when a step of Activate fails, Activate returns an error
\* and no response, and executes no later step.
C8_ErrorsAbort ==
    (Done /\ (last.faultA # "none" \/ last.faultB # "none")) =>
        /\ last.err # OK
        /\ ~last.resp
        /\ last.steps[Len(last.steps)] \in {last.faultA, last.faultB}

\* C9: outside simulation mode the quote step passes iff the zero
\* infrastructure validates (no infrastructures defined) or some defined
\* infrastructure validates; the walk stops at the first success; otherwise
\* Activate returns Unauthenticated and the counter is not read, seeded or
\* incremented.
C9_QuoteCheck ==
    (Done /\ ~simulationMode /\ "getManifest(update)" \in Earlier(last)
          /\ last.type \in DOMAIN getManifest(last.pre, "main").Marbles) =>
        LET mainManifest == getManifest(last.pre, "main")
            pkg == PackageOverlay(mainManifest, getManifest(last.pre, "update"),
                                  mainManifest.Marbles[last.type].Package)
            n == Len(last.validated)
            passed == "getActivations" \in Range(last.steps)
        IN /\ n >= 1
           /\ passed <=> QuoteAcceptable(last.pre, last.quote, last.type)
           /\ \A i \in 1..(n - 1) : ~Validate(last.quote, pkg, last.validated[i])
           /\ passed => Validate(last.quote, pkg, last.validated[n])
           /\ IF DOMAIN mainManifest.Infrastructures = {}
              THEN last.validated = <<ZeroInfra>>
              ELSE Range(last.validated) \subseteq Range(mainManifest.Infrastructures)
           /\ ~passed =>
                 /\ last.err = Unauthenticated
                 /\ Range(last.steps) \cap
                       {"putActivations", "incrementActivations"} = {}
                 /\ last.post = last.pre

C9_Witness ==
    /\ Done /\ ~simulationMode /\ last.err = Unauthenticated
    /\ Len(last.validated) = 2 /\ ~IsSet(last.post, last.type)

\* the store with the infrastructures of its main manifest replaced
WithInfrastructures(st, infras) ==
    IF HasMain(st)
    THEN putManifest(st, "main",
                     [getManifest(st, "main") EXCEPT !.Infrastructures = infras])
    ELSE st

\* C10: in simulation mode Validate is never called, the outcome of the
\* call up to the budget check is the same for every quote and every set of
\* infrastructures, and the state gate, the marble lookup and the budget
\* are still enforced.
C10_Simulation ==
    (Done /\ simulationMode) =>
        /\ last.validated = <<>>
        /\ "Validate" \notin Range(last.steps)
        /\ last.state # stateAcceptingMarbles => last.err = FailedPrecondition
        /\ ("getManifest(update)" \in Earlier(last)
               /\ last.type \notin DOMAIN getManifest(last.pre, "main").Marbles)
              => last.err = InvalidArgument
        /\ ("putActivations" \in Earlier(last) \/
               ("putActivations" \in Range(last.steps) /\ last.faultA = "none")) =>
              (last.err = ResourceExhausted <=>
                  BudgetExhausted(getManifest(last.pre, "main").Marbles[last.type],
                                  Count(last.pre, last.type)))
        /\ \A q \in Quotes, infras \in InfraChoices :
              \A order \in Orders(infras) :
                 LET o == ActivateHead(last.state, WithInfrastructures(last.pre, infras),
                                       TRUE, q, last.type, order, last.faultA)
                 IN /\ o.err = IF HeadPassed(last) THEN NoErr ELSE last.err
                    /\ o.steps = SubSeq(last.steps, 1, Len(o.steps))
                    /\ ~HeadPassed(last) => Len(o.steps) = Len(last.steps)
                    /\ o.store.activations =
                          IF HeadPassed(last)
                          THEN [t \in DOMAIN last.pre.activations \cup {last.type} |->
                                    Count(last.pre, t)]
                          ELSE last.post.activations

C10_Witness ==
    /\ Done /\ simulationMode /\ last.err = OK
    /\ DOMAIN getManifest(last.pre, "main").Infrastructures # {}

\* C11: the package handed to Validate is main's package for the marble with
\* only SecurityVersion taken from the update manifest when the update
\* defines a package of the same name, every other field being main's; it is
\* main's package unchanged when the update does not define it; and the
\* stored manifests are the same after the call as before.
C11_Overlay ==
    /\ Done => last.post.manifests = last.pre.manifests
    /\ (Done /\ ~simulationMode /\ "getManifest(update)" \in Earlier(last)
            /\ last.type \in DOMAIN getManifest(last.pre, "main").Marbles) =>
          LET mainManifest == getManifest(last.pre, "main")
              updateManifest == getManifest(last.pre, "update")
              name == mainManifest.Marbles[last.type].Package
              expected ==
                  [SignerID |-> mainManifest.Packages[name].SignerID,
                   SecurityVersion |->
                       IF name \in DOMAIN updateManifest.Packages
                       THEN updateManifest.Packages[name].SecurityVersion
                       ELSE mainManifest.Packages[name].SecurityVersion]
              n == Len(last.validated)
              passed == "getActivations" \in Range(last.steps)
          IN /\ PackageOverlay(mainManifest, updateManifest, name) = expected
             /\ name \notin DOMAIN updateManifest.Packages =>
                   expected = mainManifest.Packages[name]
             /\ passed <=> Validate(last.quote, expected, last.validated[n])
             /\ \A i \in 1..(n - 1) :
                   ~Validate(last.quote, expected, last.validated[i])

C11_Witness ==
    /\ Done /\ ~simulationMode /\ last.err = OK /\ last.type = "frontend"
    /\ "pkgA" \in DOMAIN getManifest(last.pre, "update").Packages
    /\ getManifest(last.pre, "update").Packages["pkgA"].SignerID
          # getManifest(last.pre, "main").Packages["pkgA"].SignerID
    /\ last.quote.SecurityVersion = 2

\* C12: an Activate call for a type the main manifest does not define never
\* succeeds, calls Validate not once, and leaves the store as it was, the
\* counter of that type absent; it returns InvalidArgument whenever it gets
\* as far as the marble lookup (state gate passed, peer certificate present,
\* both manifest reads succeeded).
C12_UnknownMarble ==
    (Done /\ last.type \notin DOMAIN getManifest(last.pre, "main").Marbles) =>
        /\ last.err # OK /\ ~last.resp
        /\ last.validated = <<>> /\ "Validate" \notin Range(last.steps)
        /\ ~IsSet(last.pre, last.type) /\ ~IsSet(last.post, last.type)
        /\ last.post = last.pre
        /\ last.err = InvalidArgument <=>
              /\ "getManifest(update)" \in Range(last.steps)
              /\ last.faultA # "getManifest(update)"
        /\ (last.state = stateAcceptingMarbles /\ last.faultA = "none") =>
              /\ last.err = InvalidArgument
              /\ last.steps = <<"requireState", "getClientTLSCert",
                                "getManifest(main)", "getManifest(update)">>

C12_Witness ==
    /\ Done /\ last.type = "nope" /\ last.err = InvalidArgument
    /\ HasMain(last.pre) /\ ~simulationMode
    /\ \E t \in MarbleTypes : Count(last.pre, t) > 0

\* C13 (as stated): a call that passes the state gate, the quote validation
\* and the budget check and whose request UUID does not parse returns
\* InvalidArgument.
C13_UUIDInvalidArgument ==
    (Done /\ HeadPassed(last) /\ last.faultB = "uuid.Parse") =>
        last.err = InvalidArgument

\* Activate returned a response carrying px.params
Responded == px.stage = "resp" /\ px.err = NoError

\* C14: in every successful response the reserved variables hold the values
\* the coordinator computed: EDG_CA the PEM of the intermediate certificate,
\* EDG_CERT_CHAIN the PEM of the leaf followed by the PEM of the
\* intermediate, EDG_PRIVATE_KEY the PEM of the leaf's private key, whatever
\* the manifest's Env defines for these names.
C14_ReservedEnv ==
    Responded =>
        /\ ReservedEnv \subseteq DOMAIN px.params.Env
        /\ px.params.Env["EDG_CA"] = <<Chunk("pem", "CERTIFICATE", "intermediateDER")>>
        /\ px.params.Env["EDG_CERT_CHAIN"] =
              <<Chunk("pem", "CERTIFICATE", "leafDER"),
                Chunk("pem", "CERTIFICATE", "intermediateDER")>>
        /\ px.params.Env["EDG_PRIVATE_KEY"] = <<Chunk("pem", "PRIVATE KEY", "leafPKCS8")>>

C14_Witness ==
    /\ Responded
    /\ {"EDG_CA", "EDG_PRIVATE_KEY"} \subseteq DOMAIN px.input.Parameters.Env
    /\ px.input.Parameters.Env["EDG_CA"] # px.params.Env["EDG_CA"]

\* C15 (as stated): a response's Env has MARBLE_TTLS_CONFIG iff the marble's
\* TLS tag list is non-empty, also when the manifest's Env defines the
\* variable for a marble without TLS tags.
C15_TTLSPresence ==
    Responded =>
        ("MARBLE_TTLS_CONFIG" \in DOMAIN px.params.Env <=> Len(px.input.TLS) > 0)

\* the keys of the assembled configuration
ConfKeys(conf) == DOMAIN conf.Incoming \cup DOMAIN conf.Outgoing
HasAction(text) == \E j \in DOMAIN text : text[j].enc = "act"
HasUnterminated(text) == \E j \in DOMAIN text : text[j].enc = "bad"

\* C16 (as stated): the delivered MARBLE_TTLS_CONFIG is exactly the
\* assembled JSON, not passed through template expansion.
C16_ExactJSON ==
    (Responded /\ Len(px.input.TLS) > 0) =>
        px.params.Env["MARBLE_TTLS_CONFIG"] = Marshal(px.conf)

\* C16 (amended): for a marble with TLS tags the assembler writes the
\* assembled JSON into the marble's Env before the templater runs, in place
\* of whatever the manifest defines for the variable; the templater then
\* expands it like every other Env value: the delivered value is the
\* assembled JSON with the template actions in its connection keys
\* evaluated (the JSON itself when no key holds an action, never the
\* manifest's value), and an unterminated action in a key fails the call.
C16_TemplatedJSON ==
    (px.stage \in {"ttls", "resp"} /\ Len(px.input.TLS) > 0) =>
        /\ px.marble.Parameters.Env["MARBLE_TTLS_CONFIG"] = Marshal(px.conf)
        /\ (px.stage = "resp" /\ \E k \in ConfKeys(px.conf) : HasUnterminated(k)) =>
              px.err # NoError
        /\ Responded =>
              LET v == px.params.Env["MARBLE_TTLS_CONFIG"]
                  json == Marshal(px.conf)[1]
              IN /\ Len(v) = 1 /\ v[1].enc = "json"
                 /\ (\A k \in ConfKeys(px.conf) : ~HasAction(k)) <=> v[1] = json
                 /\ \A e \in v[1].entries : ~HasAction(e.key)
                 /\ {[dir |-> e.dir, conf |-> e.conf] : e \in v[1].entries}
                       = {[dir |-> e.dir, conf |-> e.conf] : e \in json.entries}
                 /\ \A e \in json.entries : ~HasAction(e.key) => e \in v[1].entries
                 /\ "MARBLE_TTLS_CONFIG" \in DOMAIN px.input.Parameters.Env =>
                       v # px.input.Parameters.Env["MARBLE_TTLS_CONFIG"]

C16_Witness ==
    /\ Responded /\ px.input.TLS = <<"tpl">>
    /\ px.params.Env["MARBLE_TTLS_CONFIG"] # Marshal(px.conf)
    /\ "MARBLE_TTLS_CONFIG" \in DOMAIN px.input.Parameters.Env

\* the Files paths and Env names whose template fails to parse or execute
FailingNames(params, specialSecrets, userSecrets) ==
    {n \in DOMAIN params.Files :
        parseSecrets(params.Files[n], secretsWrapper(specialSecrets, userSecrets)).err
            # NoError}
    \cup {n \in DOMAIN params.Env :
        parseSecrets(params.Env[n], secretsWrapper(specialSecrets, userSecrets)).err
            # NoError}

\* C17 (as stated): when a Files or Env template fails to parse or execute,
\* Activate fails with Internal and an error that names the path or
\* variable, and returns no response.
C17_TemplateInternal ==
    (px.stage = "resp"
        /\ FailingNames(px.input.Parameters, AuthSecrets, px.userSecrets) # {}) =>
        /\ px.err.code = Internal
        /\ px.err.about \in FailingNames(px.input.Parameters, AuthSecrets, px.userSecrets)
        /\ px.params = NoParameters

\* the entries of a marble's tags, in the order of the tags and of each list
RECURSIVE TagEntries(_, _, _)
TagEntries(tls, tags, dir) ==
    IF tags = <<>> THEN <<>>
    ELSE (IF Head(tags) \in DOMAIN tls THEN tls[Head(tags)][dir] ELSE <<>>)
         \o TagEntries(tls, Tail(tags), dir)

\* C18: the assembled configuration has one Incoming connection "*:<port>"
\* per port of the marble's Incoming entries and one Outgoing connection
\* "<addr>:<port>" per address of its Outgoing entries.  An Incoming
\* connection has clientAuth = TRUE and the leaf certificate and key when its
\* entry (the last one for the port) names no Cert, and clientAuth = NOT
\* DisableClientAuth with the certificate and key of userSecrets[Cert] when
\* it names one; cacrt is the intermediate CA in both.  An Outgoing
\* connection has the leaf certificate and key, the intermediate CA and no
\* clientAuth.
C18_TTLSEntries ==
    (px.stage \in {"ttls", "resp"} /\ Len(px.input.TLS) > 0) =>
        LET incoming == TagEntries(TLS0, px.input.TLS, "Incoming")
            outgoing == TagEntries(TLS0, px.input.TLS, "Outgoing")
            ca == <<Chunk("pem", "CERTIFICATE", "intermediateDER")>>
            leaf == <<Chunk("pem", "CERTIFICATE", "leafDER")>>
            leafKey == <<Chunk("pem", "PRIVATE KEY", "leafPKCS8")>>
        IN /\ DOMAIN px.conf.Incoming =
                 {Lit("*:") \o incoming[i].Port : i \in DOMAIN incoming}
           /\ DOMAIN px.conf.Outgoing =
                 {outgoing[i].Addr \o Lit(":") \o outgoing[i].Port : i \in DOMAIN outgoing}
           /\ \A i \in DOMAIN incoming :
                 (\A j \in DOMAIN incoming : j > i => incoming[j].Port # incoming[i].Port) =>
                    LET e == incoming[i]
                        c == px.conf.Incoming[Lit("*:") \o e.Port]
                    IN /\ DOMAIN c = {"cacrt", "clicrt", "clikey", "clientAuth"}
                       /\ c.cacrt = ca
                       /\ IF e.Cert = ""
                          THEN c.clientAuth = TRUE /\ c.clicrt = leaf /\ c.clikey = leafKey
                          ELSE /\ c.clientAuth = ~e.DisableClientAuth
                               /\ c.clicrt =
                                     <<Chunk("pem", "CERTIFICATE",
                                             IF e.Cert \in DOMAIN px.userSecrets
                                             THEN px.userSecrets[e.Cert].Cert.Raw ELSE "")>>
                               /\ c.clikey =
                                     <<Chunk("pem", "PRIVATE KEY",
                                             IF e.Cert \in DOMAIN px.userSecrets
                                             THEN px.userSecrets[e.Cert].Private ELSE "")>>
           /\ \A k \in DOMAIN px.conf.Outgoing :
                 px.conf.Outgoing[k] = [cacrt |-> ca, clicrt |-> leaf, clikey |-> leafKey]
           /\ px.marble.Parameters.Env["MARBLE_TTLS_CONFIG"][1].entries =
                 {[dir |-> "Incoming", key |-> k, conf |-> px.conf.Incoming[k]] :
                     k \in DOMAIN px.conf.Incoming}
                 \cup {[dir |-> "Outgoing", key |-> k, conf |-> px.conf.Outgoing[k]] :
                     k \in DOMAIN px.conf.Outgoing}

C18_Witness ==
    /\ px.stage = "ttls" /\ px.input.TLS = <<"web", "db">>
    /\ "userCert" \in DOMAIN px.userSecrets
    /\ px.conf.Incoming[(Lit("*:") \o Lit("443"))].clientAuth = FALSE
    /\ px.conf.Incoming[(Lit("*:") \o Lit("8443"))].clientAuth = TRUE
    /\ px.conf.Incoming[(Lit("*:") \o Lit("443"))].clicrt = <<Chunk("pem", "CERTIFICATE", "userDER")>>
    /\ Cardinality(DOMAIN px.conf.Outgoing) = 2

\* C19: in every step of every interleaving no activation counter
\* decreases and no counter that is set becomes absent; a successful
\* activation of a type raises that type's counter above the value it
\* observed, which is the number of earlier successful activations of the
\* type, so successive successes observe strictly increasing values.
C19_Monotone ==
    [][/\ \A t \in ReqTypes :
             /\ Count(store', t) >= Count(store, t)
             /\ IsSet(store, t) => IsSet(store', t)
       /\ (last'.proc # 0 /\ last'.err = OK) =>
             /\ Count(last'.pre, last'.type) = succ[last'.type]
             /\ Count(store, last'.type) = Count(last'.pre, last'.type)
             /\ Count(store', last'.type) > Count(last'.pre, last'.type)
             /\ succ'[last'.type] = succ[last'.type] + 1]_vars

C19_Witness ==
    /\ Done /\ last.err = OK /\ Count(last.pre, last.type) >= 1
    /\ succ[last.type] = Count(last.post, last.type)
    /\ \E q \in Procs : q # last.proc /\ pc[q] # "idle"

C22_UndefinedPackage ==
    /\ (fn.op = "Check" /\ fn.results # <<>>
           /\ \E mt \in DOMAIN fn.manifest.Marbles :
                 fn.manifest.Marbles[mt].Package \notin DOMAIN fn.manifest.Packages) =>
          ~fn.results[1]
    /\ (fn.op = "verify" /\ fn.done) =>
          /\ fn.out.err = Internal <=>
                /\ fn.type \in DOMAIN fn.manifest.Marbles
                /\ fn.manifest.Marbles[fn.type].Package \notin DOMAIN fn.manifest.Packages
          /\ Check(fn.manifest) => fn.out.err # Internal

C22_Witness ==
    /\ fn.op = "verify" /\ fn.done /\ Check(fn.manifest)
    /\ fn.type \in DOMAIN fn.manifest.Marbles
    /\ DOMAIN fn.manifest.Packages # DOMAIN Packages0
    /\ fn.out.err = NoErr

\* C26: pem succeeds iff its input is a Certificate, PublicKey or
\* PrivateKey; raw, hex and base64 succeed iff the input is a byte string,
\* PrivateKey, PublicKey, Certificate or Secret, a Secret giving its Public
\* part; every other kind is an error; hex and base64 fail exactly when raw
\* fails and otherwise encode the bytes raw returns.
C26_Encoders ==
    (fn.op = "encode" /\ fn.done) =>
        LET kind == fn.data.kind
            rawBytes == IF kind = "Secret" THEN fn.data.secret.Public ELSE fn.data.bytes
            raw == encodeSecretDataToRaw(fn.data)
        IN /\ fn.func = "pem" =>
                 /\ fn.out.ok <=> kind \in {"Certificate", "PublicKey", "PrivateKey"}
                 /\ fn.out.ok =>
                       fn.out.s =
                          <<[enc |-> "pem",
                             type |-> IF kind = "Certificate" THEN "CERTIFICATE"
                                      ELSE IF kind = "PublicKey" THEN "PUBLIC KEY"
                                      ELSE "PRIVATE KEY",
                             bytes |-> fn.data.bytes]>>
           /\ fn.func \in {"raw", "hex", "base64"} =>
                 /\ fn.out.ok <=>
                       kind \in {"bytes", "PrivateKey", "PublicKey", "Certificate", "Secret"}
                 /\ fn.out.ok <=> raw.ok
                 /\ fn.out.ok =>
                       /\ raw.s = <<[enc |-> "raw", type |-> "", bytes |-> rawBytes]>>
                       /\ fn.out.s = <<[enc |-> fn.func, type |-> "", bytes |-> rawBytes]>>
           /\ ~fn.out.ok => fn.out.s = <<>>

C26_Witness ==
    /\ fn.op = "encode" /\ fn.done /\ fn.func = "hex" /\ fn.out.ok
    /\ fn.data.kind = "Secret" /\ fn.data.secret.Public = "pub"
    /\ fn.data.secret.Cert.Raw = "der"

\* C23: the secret map handed to the TTLS assembly and to the templater is
\* the union of the generated per-marble secrets and the stored shared
\* secrets; a name in both has the shared value, a name in one map only
\* keeps that map's value.
C23_SecretUnion ==
    px.stage \in {"marble", "ttls", "resp"} =>
        /\ DOMAIN px.userSecrets = DOMAIN px.generated \cup DOMAIN px.shared
        /\ \A n \in DOMAIN px.shared : px.userSecrets[n] = px.shared[n]
        /\ \A n \in DOMAIN px.generated \ DOMAIN px.shared :
              px.userSecrets[n] = px.generated[n]
        /\ px.stage \in {"ttls", "resp"} =>
              px.marble = setTTLSConfig(px.input, AuthSecrets, px.userSecrets,
                                        IntermediateCert, TLS0)
        /\ px.stage = "resp" =>
              LET r == customizeParameters(px.marble.Parameters, AuthSecrets,
                                           px.userSecrets)
              IN px.err = r.err /\ px.params = r.params

C23_Witness ==
    /\ px.stage = "resp"
    /\ "userCert" \in DOMAIN px.generated \cap DOMAIN px.shared
    /\ px.generated["userCert"] # px.shared["userCert"]
    /\ px.userSecrets["userCert"] = px.shared["userCert"]
    /\ px.err = NoError

\* C29: customizeParameters returns the Argv it was given, unexpanded, a
\* Files map keyed by exactly the given file paths and an Env map keyed by
\* the given Env names plus the three reserved names; the Parameters it was
\* given are left as they were.
C29_Frame ==
    [][(px.stage = "ttls" /\ px'.stage = "resp") =>
          /\ px'.marble = px.marble
          /\ px'.input = px.input
          /\ px'.userSecrets = px.userSecrets
          /\ px'.err = NoError =>
                /\ px'.params.Argv = px.marble.Parameters.Argv
                /\ DOMAIN px'.params.Files = DOMAIN px.marble.Parameters.Files
                /\ DOMAIN px'.params.Env =
                      DOMAIN px.marble.Parameters.Env \cup ReservedEnv
                /\ Cardinality(ReservedEnv) = 3]_vars

C29_Witness ==
    /\ px.stage = "resp" /\ px.err = NoError
    /\ HasAction(px.params.Argv[2])
    /\ px.params.Argv = px.input.Parameters.Argv
    /\ DOMAIN px.params.Files = {"/cert.pem"}
    /\ DOMAIN px.params.Env = {"GREETING"} \cup ReservedEnv
    /\ ~HasAction(px.params.Env["GREETING"])

\* the returned call executed the budget comparison of
\* verifyManifestRequirement
Compared(c) ==
    "putActivations" \in Range(c.steps) /\ c.faultA # "putActivations"

\* C25: a marble type with MaxActivations = 0 has no budget: no Activate
\* call for it returns ResourceExhausted, whatever its counter; a call that
\* reaches the budget comparison returns ResourceExhausted if and only if
\* MaxActivations > 0 and the counter read is >= MaxActivations.
C25_Unlimited ==
    Done =>
        /\ last.err = ResourceExhausted =>
              /\ HasMain(last.pre)
              /\ last.type \in DOMAIN getManifest(last.pre, "main").Marbles
              /\ MaxAct(last.pre, last.type) > 0
              /\ Count(last.pre, last.type) >= MaxAct(last.pre, last.type)
              /\ Compared(last)
        /\ Compared(last) =>
              (last.err = ResourceExhausted <=>
                  /\ MaxAct(last.pre, last.type) > 0
                  /\ Count(last.pre, last.type) >= MaxAct(last.pre, last.type))

C25_Witness ==
    /\ Done /\ last.err = OK /\ Compared(last)
    /\ MaxAct(last.pre, last.type) = 0
    /\ Count(last.pre, last.type) >= 2
    /\ Count(last.post, last.type) = Count(last.pre, last.type) + 1

\* C27: an Activate call that got past the budget check and whose CSR does
\* not parse, or whose CSR signature does not verify, returns
\* InvalidArgument; no certificate is created and the counter is not
\* incremented.
C27_BadCSR ==
    (Done /\ last.faultB \in {"ParseCertificateRequest", "CheckSignature"}) =>
        /\ HeadPassed(last) /\ Compared(last)
        /\ last.err = InvalidArgument
        /\ ~last.resp
        /\ last.steps[Len(last.steps)] = last.faultB
        /\ "CreateCertificate" \notin Range(last.steps)
        /\ "incrementActivations" \notin Range(last.steps)
        /\ Count(last.post, last.type) = Count(last.pre, last.type)

C27_Witness ==
    /\ Done /\ last.faultB = "CheckSignature" /\ last.err = InvalidArgument
    /\ "ParseCertificateRequest" \in Range(last.steps)
    /\ Count(last.pre, last.type) = 1 /\ Count(last.post, last.type) = 1

\* C28: an Activate call that passes the state gate and finds no peer TLS
\* certificate in the transport context returns Unauthenticated before it
\* reads a manifest or reads or writes a counter.
C28_NoPeerCert ==
    (Done /\ last.faultA = "getClientTLSCert") =>
        /\ last.state = stateAcceptingMarbles
        /\ last.err = Unauthenticated
        /\ last.steps = <<"requireState", "getClientTLSCert">>
        /\ last.validated = <<>>
        /\ ~last.resp
        /\ last.post = last.pre

C28_Witness ==
    /\ Done /\ last.faultA = "getClientTLSCert" /\ last.err = Unauthenticated
    /\ HasMain(last.pre)
    /\ last.type \in DOMAIN getManifest(last.pre, "main").Marbles
    /\ ~IsSet(last.pre, last.type)
    /\ ~IsSet(last.post, last.type)

\* C30: the counter seed of verifyManifestRequirement writes back the value
\* just read, 0 for an absent counter: once the budget check has been
\* reached the counter has the numeric value it had before, it is set, and
\* the store is the one before the call when the counter was already set.
C30_SeedIdempotent ==
    /\ \A p \in Procs :
          pc[p] = "issue" =>
              LET t == req[p].MarbleType
                  pre == loc[p].pre
              IN /\ Count(store, t) = Count(pre, t)
                 /\ IsSet(store, t)
                 /\ IsSet(pre, t) => store = pre
                 /\ store = putActivations(pre, t, Count(pre, t))
    /\ (Done /\ Compared(last) /\ last.err = ResourceExhausted) =>
          /\ Count(last.post, last.type) = Count(last.pre, last.type)
          /\ IsSet(last.post, last.type)
          /\ IsSet(last.pre, last.type) => last.post = last.pre

C30_Witness ==
    \E p \in Procs :
        /\ pc[p] = "issue"
        /\ IsSet(loc[p].pre, req[p].MarbleType)
        /\ Count(loc[p].pre, req[p].MarbleType) = 2
        /\ store = loc[p].pre

\* C24: Activate keeps no record of UUIDs. A valid call succeeds exactly
\* when budget remains, whether or not its (MarbleType, UUID) was activated
\* before; each success advances the counter by one and carries a leaf
\* certificate made in that call, with the serial number and the key drawn
\* in that call and the call's UUID as CommonName.
C24_NoUUIDRecord ==
    \A i \in DOMAIN certLog :
        LET e == certLog[i]
            max == MaxAct(store, e.type)
            earlier == {j \in 1..(i - 1) : certLog[j].type = e.type
                                            /\ certLog[j].err = OK}
        IN /\ e.err = OK <=> (max = 0 \/ e.before < max)
           /\ e.err # OK => e.err = ResourceExhausted /\ e.after = e.before
           /\ e.before = Cardinality(earlier)
           /\ e.err = OK =>
                 /\ e.after = e.before + 1
                 /\ e.cert.SerialNumber = e.serial
                 /\ e.cert.PublicKey = e.privk
                 /\ e.cert.CommonName = e.uuid
                 /\ ~e.cert.IsCA

C24_Witness ==
    /\ Len(certLog) = 3
    /\ \A i \in 1..3 : /\ certLog[i].type = "backend"
                        /\ certLog[i].uuid = "uuid-1"
                        /\ certLog[i].err = OK
                        /\ certLog[i].after = i
    /\ certLog[1].cert.SerialNumber # certLog[2].cert.SerialNumber
    /\ certLog[1].cert # certLog[3].cert
    /\ certLog[1].cert.SerialNumber = certLog[3].cert.SerialNumber

C32_StableOrder ==
    (fn.op = "verify" /\ fn.done) =>
        \A order \in Orders(fn.manifest.Infrastructures) :
            verifyManifestRequirement(putManifest(EmptyStore, "main", fn.manifest),
                                      FALSE, fn.quote, fn.type, order,
                                      "none").validated = fn.out.validated

\* C33: an Incoming entry whose Cert is not a name of the merged user
\* secrets makes setTTLSConfig neither fail nor fall back: the connection
\* is emitted with clicrt and clikey encoded from the zero secret (empty
\* bytes), not from the marble's leaf certificate and key, and the
\* activation returns its response unless a template of the marble fails.
C33_MissingCert ==
    (px.stage \in {"ttls", "resp"} /\ Len(px.input.TLS) > 0) =>
        LET incoming == TagEntries(TLS0, px.input.TLS, "Incoming")
        IN /\ \A i \in DOMAIN incoming :
                 (/\ \A j \in DOMAIN incoming :
                        j > i => incoming[j].Port # incoming[i].Port
                  /\ incoming[i].Cert # ""
                  /\ incoming[i].Cert \notin DOMAIN px.userSecrets) =>
                    LET c == px.conf.Incoming[Lit("*:") \o incoming[i].Port]
                    IN /\ c.clicrt = <<Chunk("pem", "CERTIFICATE", "")>>
                       /\ c.clikey = <<Chunk("pem", "PRIVATE KEY", "")>>
                       /\ c.clicrt # PemEncode("CERTIFICATE", AuthSecrets.MarbleCert.Cert.Raw)
                       /\ c.clikey # PemEncode("PRIVATE KEY", AuthSecrets.MarbleCert.Private)
                       /\ c.clientAuth = ~incoming[i].DisableClientAuth
           /\ TTLSEnv \in DOMAIN px.marble.Parameters.Env
           /\ (px.stage = "resp"
                /\ FailingNames(px.marble.Parameters, AuthSecrets, px.userSecrets) = {})
                  => px.err = NoError

C33_Witness ==
    /\ px.stage = "resp" /\ px.err = NoError
    /\ px.input.TLS = <<"db">>
    /\ "userCert" \notin DOMAIN px.userSecrets
    /\ px.conf.Incoming[(Lit("*:") \o Lit("9000"))].clicrt =
          <<Chunk("pem", "CERTIFICATE", "")>>
    /\ px.conf.Incoming[(Lit("*:") \o Lit("9000"))].clikey =
          <<Chunk("pem", "PRIVATE KEY", "")>>
    /\ TTLSEnv \in DOMAIN px.params.Env

\* the diff adds `file` to the file list sgx.<fileType>
AddsFile(d, fileType, fileName) ==
    \/ /\ d.manifestEntry.index = "sgx." \o fileType
       /\ d.entryType = "array"
       /\ \E i \in DOMAIN d.manifestEntry.value :
              d.manifestEntry.value[i] = "file:" \o fileName
    \/ /\ d.manifestEntry.index = "sgx." \o fileType \o ".marblerun_" \o fileName
       /\ d.manifestEntry.value = "file:" \o fileName

\* C34 (as stated): for every manifest with a libos.entrypoint, whatever the
\* form of sgx.trusted_files and sgx.allowed_files, the change list holds an
\* entry that adds "file:premain-libos" to the trusted files and one that
\* adds "file:uuid" to the allowed files.
C34_FilesInserted ==
    (fn.op = "prepare" /\ fn.done /\ "libos.entrypoint" \in DOMAIN fn.tree) =>
        /\ ~fn.err
        /\ \E i \in DOMAIN fn.changeDiffs :
              AddsFile(fn.changeDiffs[i], "trusted_files", premainName)
        /\ \E i \in DOMAIN fn.changeDiffs :
              AddsFile(fn.changeDiffs[i], "allowed_files", uuidName)

\* the lines of `content` the pattern of an already-existing diff matches
MatchedLines(d, content) ==
    {j \in DOMAIN content :
        /\ content[j].index = d.manifestEntry.index
        /\ \/ content[j].decl = "block"
           \/ content[j].decl = "flat" /\ d.entryType = "string"}

\* C35: appendAndReplace replaces an already-existing entry only when its
\* key matches exactly one line of the manifest, and returns an error and
\* no content when some already-existing entry matches no line or more than
\* one.  Otherwise every matched line holds its diff's entry, every other
\* line is kept, the entries that did not exist follow the old content in
\* diff order, and the marker comment stands once, right before the first
\* of them, and not at all when nothing is appended.
C35_AppendAndReplace ==
    (fn.op = "append" /\ fn.done) =>
        LET diffs == fn.changeDiffs
            old == fn.content
            new == fn.out.content
            NotThere(d) == ~d.alreadyExists
            added == SelectSeq(diffs, NotThere)
            existing == {i \in DOMAIN diffs : diffs[i].alreadyExists}
            bad == \E i \in existing : Cardinality(MatchedLines(diffs[i], old)) # 1
            markers == {j \in DOMAIN new : new[j] = commentMarbleRunAdditions}
        IN /\ bad => fn.out.err # "" /\ new = <<>>
           /\ ~bad =>
                 /\ fn.out.err = ""
                 /\ Len(new) = Len(old) + Len(added) + (IF added = <<>> THEN 0 ELSE 1)
                 /\ \A j \in DOMAIN old :
                       IF \E i \in existing : j \in MatchedLines(diffs[i], old)
                       THEN \E i \in existing :
                               /\ j \in MatchedLines(diffs[i], old)
                               /\ new[j].index = old[j].index
                               /\ new[j].body = diffs[i].manifestEntry
                       ELSE new[j] = old[j]
                 /\ markers = IF added = <<>> THEN {} ELSE {Len(old) + 1}
                 /\ \A k \in DOMAIN added :
                       /\ new[Len(old) + 1 + k].body = added[k].manifestEntry
                       /\ new[Len(old) + 1 + k].index = added[k].manifestEntry.index

C35_Witness ==
    /\ fn.op = "append" /\ fn.done /\ fn.out.err = ""
    /\ Len(fn.changeDiffs) = 5 /\ ~fn.changeDiffs[1].alreadyExists
    /\ fn.changeDiffs[2].alreadyExists
    /\ Len(fn.content) = 3 /\ Len(fn.out.content) = 7
    /\ fn.out.content[4] = commentMarbleRunAdditions
    /\ fn.out.content[5].index = "loader.argv0_override"
    /\ fn.out.content[2].body = fn.changeDiffs[2].manifestEntry
    /\ fn.out.content[1] = fn.content[1]

====
